---- MODULE Spec2Model ----
(***************************************************************************)
(* Model of greenplanet_energy_api/api.py: the price queries of            *)
(* GreenPlanetEnergyAPI over a price map (dict[str, float]), and the       *)
(* client itself: its session, get_electricity_prices and                  *)
(* _process_response.                                                      *)
(*                                                                         *)
(* Prices, durations and averages are Python floats, i.e. IEEE-754         *)
(* binary64 values.  A non-negative finite float is the tuple              *)
(* <<h, mi, lo, e>> that stands for (h * 2^48 + mi * 2^24 + lo) * 2^e,     *)
(* normalised so that the 53-bit significand has its top bit set           *)
(* (16 <= h < 32); 0.0 is <<0, 0, 0, 0>>; a negative float carries a fifth *)
(* element.  Every arithmetic operator below rounds to nearest, ties to    *)
(* even, as the float operations of the code do.                           *)
(*                                                                         *)
(* None is the empty tuple; a present optional value is a float tuple or   *)
(* a one-element tuple <<hour>>.  A str is the sequence of its code        *)
(* points, an int of unbounded size its decimal numeral.                   *)
(***************************************************************************)
EXTENDS Integers, Naturals, Sequences, FiniteSets, Bags, TLC

(***************************************************************************)
(* binary64 arithmetic                                                     *)
(***************************************************************************)
LimbBase == 2^24
SubLimb == 2^12
MantTop == 2^5
GuardBits == 1 + 2
MinExp == 0 - (2^10 + 50)

FZero == <<0, 0, 0, 0>>
FInf == <<MantTop, 0, 0, 0>>
FNaN == <<MantTop, 0, 1, 0>>
None == <<>>

\* the magnitude and the sign of a float
Mag(x) == <<x[1], x[2], x[3], x[4]>>
IsNeg(x) == Len(x) = 5
Signed(m, neg) == IF neg THEN <<m[1], m[2], m[3], m[4], 1>> ELSE m

\* -x
FNeg(x) == IF x = FNaN THEN FNaN ELSE Signed(Mag(x), ~IsNeg(x))

\* the number of bits of an integer 0 <= n < 2^30
RECURSIVE BitLen(_)
BitLen(n) == IF n = 0 THEN 0 ELSE 1 + BitLen(n \div 2)

\* the number of bits of a significand
SigLen(m) ==
  IF m[1] # 0 THEN 48 + BitLen(m[1])
  ELSE IF m[2] # 0 THEN 24 + BitLen(m[2])
  ELSE BitLen(m[3])

\* shift left by k bits (the result fits three limbs)
ShlN(m, k) ==
  LET \* by less than a limb: p is 2^(k % 24) and q is 2^24 / p
      Bits(p, q) ==
        <<m[1] * p + (m[2] \div q), (m[2] % q) * p + (m[3] \div q), (m[3] % q) * p>>
      \* by the whole limbs of k
      Whole(s) ==
        IF k < 24 THEN s
        ELSE IF k < 48 THEN <<s[1] * LimbBase + s[2], s[3], 0>>
        ELSE <<(s[1] * LimbBase + s[2]) * LimbBase + s[3], 0, 0>>
  IN IF k <= 0 THEN m ELSE Whole(Bits(2^(k % 24), 2^(24 - (k % 24))))

\* shift right by k bits; st collects (as 0/1) every bit shifted out
ShrSticky(m, k, st) ==
  LET \* the limbs a, b and c that the whole limbs of k leave, out being what
      \* these shift out, moved right by less than a limb: p is 2^(k % 24)
      Bits(a, b, c, out, p) ==
        <<a \div p,
          (a % p) * (LimbBase \div p) + (b \div p),
          ((b % p) * (LimbBase \div p) + (c \div p)) % LimbBase,
          IF st = 1 \/ out # 0 \/ c % p # 0 THEN 1 ELSE 0>>
  IN IF k <= 0 THEN <<m[1], m[2], m[3], st>>
     ELSE Bits(IF k < 24 THEN m[1] ELSE 0,
               IF k < 24 THEN m[2] ELSE IF k < 48 THEN m[1] ELSE 0,
               IF k < 24 THEN m[3] ELSE IF k < 48 THEN m[2] ELSE IF k < 72 THEN m[1] ELSE 0,
               IF k < 24 THEN 0 ELSE IF k < 48 THEN m[3]
               ELSE IF k < 72 THEN m[2] + m[3] ELSE m[1] + m[2] + m[3],
               2^(k % 24))

\* m - n for significands m >= n
Sub3(m, n) ==
  LET \* lo and mi are the differences of the two lower limbs, a borrow taken
      \* from mi
      Borrow(lo, mi) ==
        <<m[1] - n[1] - (IF mi < 0 THEN 1 ELSE 0),
          IF mi < 0 THEN mi + LimbBase ELSE mi,
          IF lo < 0 THEN lo + LimbBase ELSE lo>>
  IN Borrow(m[3] - n[3], m[2] - n[2] - (IF m[3] < n[3] THEN 1 ELSE 0))

\* m >= n for significands
Geq3(m, n) ==
  \/ m[1] > n[1]
  \/ m[1] = n[1] /\ m[2] > n[2]
  \/ m[1] = n[1] /\ m[2] = n[2] /\ m[3] >= n[3]

\* round to nearest, ties to even, the significand m followed by a round
\* bit rb and a sticky bit st: inf beyond the range, 0.0 below it
RoundEven(m, e, rb, st) ==
  LET MaxExp == 2^10 - 53
      MantMin == 2^4
      Increment(h0, mi0, lo0) ==
        IF lo0 + 1 < LimbBase THEN <<h0, mi0, lo0 + 1, e>>
        ELSE IF mi0 + 1 < LimbBase THEN <<h0, mi0 + 1, 0, e>>
        ELSE IF h0 + 1 < MantTop THEN <<h0 + 1, 0, 0, e>>
        ELSE <<MantMin, 0, 0, e + 1>>
      InRange(r) ==
        IF r[4] > MaxExp THEN FInf
        ELSE IF r[1] = 0 /\ r[2] = 0 /\ r[3] = 0 THEN FZero
        ELSE r
  IN InRange(IF rb = 1 /\ (st = 1 \/ m[3] % 2 = 1)
             THEN Increment(m[1], m[2], m[3])
             ELSE <<m[1], m[2], m[3], e>>)

\* round the significand m at exponent e after moving it by sh bits
RoundShift(m, e, rb, st, sh) ==
  LET \* bits too many: s is the significand without all but one of them, its
      \* last bit the round bit, its fourth element the sticky bit
      Right(s) ==
        RoundEven(ShrSticky(<<s[1], s[2], s[3]>>, 1, 0), e + sh, s[3] % 2, s[4])
      \* bits missing: the significand s and the round bit r, moved left
      Left(s, r) ==
        RoundEven(<<s[1] + r[1], s[2] + r[2], s[3] + r[3]>>, e + sh, 0, st)
  IN IF sh > 0
     THEN Right(ShrSticky(m, sh - 1, IF st = 1 \/ rb = 1 THEN 1 ELSE 0))
     ELSE IF sh = 0 THEN RoundEven(m, e, rb, st)
     ELSE IF m = <<0, 0, 0>> /\ rb = 0 THEN FZero
     ELSE Left(ShlN(m, 0 - sh), ShlN(<<0, 0, rb>>, 0 - sh - 1))

\* round the integer h*2^48 + mi*2^24 + lo, followed by a round bit rb and
\* a sticky bit st, times 2^e, to the nearest float: the significand is
\* brought to 53 bits, or to fewer at the least exponent (subnormal), and a
\* result beyond the largest float is inf
RoundNorm(h, mi, lo, e, rb, st) ==
  LET fit == SigLen(<<h, mi, lo>>) - 53
  IN RoundShift(<<h, mi, lo>>, e, rb, st,
                IF e + fit < MinExp THEN MinExp - e ELSE fit)

\* RoundNorm of a significand s whose fourth element is its sticky bit
RoundSticky(s, e) == RoundNorm(s[1], s[2], s[3], e, 0, s[4])

\* the same value with the top bit of the significand set (the exponent
\* may leave the range of the format), for a significand other than 0
NormUp(m, e) ==
  LET k == 53 - SigLen(m)
      Shifted(s) == <<s[1], s[2], s[3], e - k>>
  IN Shifted(ShlN(m, k))

\* float(n) for an integer n, |n| < 2^31 (exact)
FromInt(n) ==
  LET abs == IF n < 0 THEN 0 - n ELSE n
  IN IF n = 0 THEN FZero
     ELSE Signed(NormUp(<<0, abs \div LimbBase, abs % LimbBase>>, 0), n < 0)

FOne == FromInt(1)

\* a < b for magnitudes
MagLess(a, b) ==
  IF b = FInf THEN a # FInf
  ELSE IF a = FInf THEN FALSE
  ELSE IF b = FZero THEN FALSE
  ELSE IF a = FZero THEN TRUE
  ELSE \/ a[4] < b[4]
       \/ /\ a[4] = b[4]
          /\ \/ a[1] < b[1]
             \/ a[1] = b[1] /\ a[2] < b[2]
             \/ a[1] = b[1] /\ a[2] = b[2] /\ a[3] < b[3]

\* the significand of the magnitude x, d bits below that of the other
\* operand, brought to the other's guard bits, with its sticky bit
Aligned(x, d) ==
  IF d <= GuardBits
  THEN ShlN(<<x[1], x[2], x[3]>>, GuardBits - d) \o <<0>>
  ELSE ShrSticky(<<x[1], x[2], x[3]>>, d - GuardBits, 0)

\* a - b for finite magnitudes a > b
MagSub(a, b) ==
  LET \* am - bs, for the significand am of a and the aligned one bs of b
      Diff(am, bs) ==
        RoundSticky(Sub3(Sub3(am, <<bs[1], bs[2], bs[3]>>), <<0, 0, bs[4]>>) \o <<bs[4]>>,
                    a[4] - GuardBits)
  IN IF b = FZero THEN a
     ELSE Diff(ShlN(<<a[1], a[2], a[3]>>, GuardBits), Aligned(b, a[4] - b[4]))

\* a + b for finite magnitudes
MagAdd(a, b) ==
  LET big == IF a[4] >= b[4] THEN a ELSE b
      small == IF a[4] >= b[4] THEN b ELSE a
      \* bm + sm, for the significand bm of big and the aligned one sm of small
      Sum(bm, sm) ==
        LET lo == bm[3] + sm[3]
            mi == bm[2] + sm[2] + (lo \div LimbBase)
            h == bm[1] + sm[1] + (mi \div LimbBase)
        IN RoundNorm(h, mi % LimbBase, lo % LimbBase, big[4] - GuardBits, 0, sm[4])
  IN IF a = FZero THEN b
     ELSE IF b = FZero THEN a
     ELSE Sum(ShlN(<<big[1], big[2], big[3]>>, GuardBits),
              Aligned(small, big[4] - small[4]))

\* x + y for finite x and y of opposite signs, |x| > |y|
Larger(x, y) == Signed(MagSub(Mag(x), Mag(y)), IsNeg(x))

\* a + b
FAdd(a, b) ==
  LET less == MagLess(Mag(b), Mag(a))
  IN  IF a = FNaN \/ b = FNaN THEN FNaN
      ELSE IF Mag(a) = FInf
      THEN IF Mag(b) = FInf /\ IsNeg(a) # IsNeg(b) THEN FNaN ELSE a
      ELSE IF Mag(b) = FInf THEN b
      ELSE IF IsNeg(a) = IsNeg(b) THEN Signed(MagAdd(Mag(a), Mag(b)), IsNeg(a))
      ELSE IF Mag(a) = Mag(b) THEN FZero
      ELSE Larger(IF less THEN a ELSE b, IF less THEN b ELSE a)

\* a - b
FSub(a, b) == FAdd(a, FNeg(b))

\* the five 12-bit limbs of a significand, least significant first
Limbs(m) ==
  <<m[3] % SubLimb, m[3] \div SubLimb, m[2] % SubLimb, m[2] \div SubLimb, m[1]>>

\* a * b for finite magnitudes other than 0
MagMul(a, b) ==
  LET \* the product of two significands given as 12-bit limbs x and y: the top
      \* limbs, from 2^48 on, as a significand, and whether a bit is set below
      Product(x, y) ==
        LET c1 == x[1] * y[1]
            c2 == x[1] * y[2] + x[2] * y[1] + (c1 \div SubLimb)
            c3 == x[1] * y[3] + x[2] * y[2] + x[3] * y[1] + (c2 \div SubLimb)
            c4 == x[1] * y[4] + x[2] * y[3] + x[3] * y[2] + x[4] * y[1] + (c3 \div SubLimb)
            c5 == x[1] * y[5] + x[2] * y[4] + x[3] * y[3] + x[4] * y[2] + x[5] * y[1]
                    + (c4 \div SubLimb)
            c6 == x[2] * y[5] + x[3] * y[4] + x[4] * y[3] + x[5] * y[2] + (c5 \div SubLimb)
            c7 == x[3] * y[5] + x[4] * y[4] + x[5] * y[3] + (c6 \div SubLimb)
            c8 == x[4] * y[5] + x[5] * y[4] + (c7 \div SubLimb)
            c9 == x[5] * y[5] + (c8 \div SubLimb)
        IN <<c9,
             (c8 % SubLimb) * SubLimb + (c7 % SubLimb),
             (c6 % SubLimb) * SubLimb + (c5 % SubLimb),
             IF c1 % SubLimb = 0 /\ c2 % SubLimb = 0 /\ c3 % SubLimb = 0 /\ c4 % SubLimb = 0
             THEN 0 ELSE 1>>
      \* the product of the normalised operands na and nb
      Normal(na, nb) == <<Product(Limbs(na), Limbs(nb)), na[4] + nb[4] + 48>>
      Rounded(p) == RoundSticky(p[1], p[2])
  IN Rounded(Normal(NormUp(<<a[1], a[2], a[3]>>, a[4]), NormUp(<<b[1], b[2], b[3]>>, b[4])))

\* a * b
FMul(a, b) ==
  IF a = FNaN \/ b = FNaN THEN FNaN
  ELSE IF Mag(a) = FInf \/ Mag(b) = FInf
  THEN IF Mag(a) = FZero \/ Mag(b) = FZero THEN FNaN
       ELSE Signed(FInf, IsNeg(a) # IsNeg(b))
  ELSE IF Mag(a) = FZero \/ Mag(b) = FZero THEN Signed(FZero, IsNeg(a) # IsNeg(b))
  ELSE Signed(MagMul(Mag(a), Mag(b)), IsNeg(a) # IsNeg(b))

\* one digit (base 2^12) of the long division by d, a significand of 60
\* bits: from the remainder r < d, moved left by a digit to rb, <<digit, r1,
\* r2, r3>> with the next remainder; the digit is estimated from the top
\* limbs and corrected
DivEstimated(rb, d) ==
  LET \* m * q for a significand m and q < 2^12
      MulSmall(m, q) ==
        LET \* x * q as <<high limb, low limb>>, for a limb x
            MulLimb(x) ==
              LET b == (x \div SubLimb) * q
                  w == (b % SubLimb) * SubLimb + (x % SubLimb) * q
              IN <<(b \div SubLimb) + (w \div LimbBase), w % LimbBase>>
            Sum(lo, mi) ==
              LET t == mi[2] + lo[1]
              IN <<m[1] * q + mi[1] + (t \div LimbBase), t % LimbBase, lo[2]>>
        IN Sum(MulLimb(m[3]), MulLimb(m[2]))
      \* the estimate q1 of the digit is at most two too large; p1 is d * q1
      Corrected(q1, p1) ==
        LET p2 == Sub3(p1, d)
        IN IF Geq3(rb, p1) THEN <<q1>> \o Sub3(rb, p1)
           ELSE IF Geq3(rb, p2) THEN <<q1 - 1>> \o Sub3(rb, p2)
           ELSE <<q1 - 2>> \o Sub3(rb, Sub3(p2, d))
      est == rb[1] \div d[1]
      q1 == IF est >= SubLimb THEN SubLimb - 1 ELSE est
  IN Corrected(q1, MulSmall(d, q1))

\* n more digits of the quotient after the digits q (a significand, with
\* room for the next digit); s is the latest step; the last element tells
\* whether a remainder is left
RECURSIVE DivLoop(_, _, _, _)
DivLoop(s, q, d, n) ==
  IF n = 0
  THEN <<q[1], q[2], q[3] + s[1], IF s[2] = 0 /\ s[3] = 0 /\ s[4] = 0 THEN 0 ELSE 1>>
  ELSE DivLoop(DivEstimated(ShlN(<<s[2], s[3], s[4]>>, 12), d),
               ShlN(<<q[1], q[2], q[3] + s[1]>>, 12), d, n - 1)

\* floor(am * 2^60 / bm) for significands of 53 bits, and whether a
\* remainder is left
LongDiv(am, bm) ==
  LET \* n and d are the significands with 60 bits, n < 2 * d
      Scaled(n, d) ==
        DivLoop(<<IF Geq3(n, d) THEN 1 ELSE 0>> \o (IF Geq3(n, d) THEN Sub3(n, d) ELSE n),
                <<0, 0, 0>>, d, 5)
  IN Scaled(ShlN(am, 7), ShlN(bm, 7))

\* the quotient of the normalised operands na and nb: the quotient of the
\* significands to 60 bits and a sticky bit, rounded once; a divisor whose
\* significand has no more than 12 bits is divided by in one pass
MagDivNormal(na, nb) ==
  LET \* floor(am * 2^24 / k) for a significand am of 53 bits and 0 < k < 2^12,
      \* and whether a remainder is left
      ShortDiv(am, k) ==
        LET x == Limbs(am)
            q7 == x[5] \div k
            t6 == (x[5] % k) * SubLimb + x[4]
            t5 == (t6 % k) * SubLimb + x[3]
            t4 == (t5 % k) * SubLimb + x[2]
            t3 == (t4 % k) * SubLimb + x[1]
            t2 == (t3 % k) * SubLimb
            t1 == (t2 % k) * SubLimb
        IN <<(q7 * SubLimb + (t6 \div k)) * SubLimb + (t5 \div k),
             (t4 \div k) * SubLimb + (t3 \div k),
             (t2 \div k) * SubLimb + (t1 \div k),
             IF t1 % k = 0 THEN 0 ELSE 1>>
      short == nb[3] = 0 /\ nb[2] % (2^17) = 0
  IN RoundSticky(IF short
                 THEN ShortDiv(<<na[1], na[2], na[3]>>, nb[1] * (2^7) + (nb[2] \div (2^17)))
                 ELSE LongDiv(<<na[1], na[2], na[3]>>, <<nb[1], nb[2], nb[3]>>),
                 na[4] - nb[4] - (IF short THEN 65 ELSE 60))

\* a / b for a divisor other than 0 (a zero divisor raises ZeroDivisionError)
FDiv(a, b) ==
  IF a = FNaN \/ b = FNaN THEN FNaN
  ELSE IF Mag(a) = FInf
  THEN IF Mag(b) = FInf THEN FNaN ELSE Signed(FInf, IsNeg(a) # IsNeg(b))
  ELSE IF Mag(b) = FInf \/ Mag(a) = FZero THEN Signed(FZero, IsNeg(a) # IsNeg(b))
  ELSE Signed(MagDivNormal(NormUp(<<a[1], a[2], a[3]>>, a[4]),
                           NormUp(<<b[1], b[2], b[3]>>, b[4])),
              IsNeg(a) # IsNeg(b))

\* a < b
FLess(a, b) ==
  IF a = FNaN \/ b = FNaN THEN FALSE
  ELSE IF Mag(a) = FZero /\ Mag(b) = FZero THEN FALSE
  ELSE IF IsNeg(a) THEN (IF IsNeg(b) THEN MagLess(Mag(b), Mag(a)) ELSE TRUE)
  ELSE IF IsNeg(b) THEN FALSE
  ELSE MagLess(a, b)

\* a <= b
FLeq(a, b) ==
  IF a = FNaN \/ b = FNaN THEN FALSE
  ELSE IF Mag(a) = FZero /\ Mag(b) = FZero THEN TRUE
  ELSE a = b \/ FLess(a, b)

\* a == b
FEq(a, b) ==
  IF a = FNaN \/ b = FNaN THEN FALSE
  ELSE IF Mag(a) = FZero /\ Mag(b) = FZero THEN TRUE
  ELSE a = b

\* f % 1 for the part f of a magnitude below 1: the result has the sign of
\* the divisor 1.0
Positive(f, neg) ==
  IF f = FZero THEN FZero
  ELSE IF neg THEN FAdd(Signed(f, TRUE), FOne)
  ELSE f

\* a % 1
FMod1(a) ==
  LET \* the bits of the significand m below bit k
      LowBits(m, k) ==
        IF k >= 53 THEN m
        ELSE IF k >= 48 THEN <<m[1] % (2^(k - 48)), m[2], m[3]>>
        ELSE IF k >= 24 THEN <<0, m[2] % (2^(k - 24)), m[3]>>
        ELSE IF k > 0 THEN <<0, 0, m[3] % (2^k)>>
        ELSE <<0, 0, 0>>
      \* the float of the significand f at the exponent e
      Below(f, e) ==
        IF f = <<0, 0, 0>> THEN FZero
        ELSE IF e = MinExp THEN <<f[1], f[2], f[3], e>>
        ELSE NormUp(f, e)
      \* math.fmod(x, 1.0) for a finite magnitude: the part below 1, exactly
      MagFrac(x) ==
        IF x = FZero THEN FZero
        ELSE Below(LowBits(<<x[1], x[2], x[3]>>, 0 - x[4]), x[4])
  IN  IF a = FNaN \/ Mag(a) = FInf THEN FNaN
      ELSE Positive(MagFrac(Mag(a)), IsNeg(a))

\* what a call or a conversion ends in: nothing yet, a value, or an
\* exception
NoRet == [kind |-> "none", value |-> None, exc |-> ""]
Returned(v) == [kind |-> "return", value |-> v, exc |-> ""]
Raised(e) == [kind |-> "raise", value |-> None, exc |-> e]

\* int(a): the integer part, towards zero, of a finite a, |a| < 2^31;
\* ValueError for nan and OverflowError for an infinity
Trunc(a) ==
  LET Towards0(n) == IF IsNeg(a) THEN 0 - n ELSE n
      Whole(i) == Returned(Towards0(i[2] * LimbBase + i[3]))
  IN IF a = FNaN THEN Raised("ValueError")
     ELSE IF Mag(a) = FInf THEN Raised("OverflowError")
     ELSE Whole(ShrSticky(<<a[1], a[2], a[3]>>, 0 - a[4], 0))

(***************************************************************************)
(* Bounds of the checked input space                                       *)
(***************************************************************************)
\* a sparse price map holds at most MaxKeys slots
MaxKeys == 3
\* a full-period price map is flat except at up to MaxDips slots
MaxDips == 2

\* 0.01, the slack of the coverage check
Tolerance == FDiv(FOne, FromInt(100))

(***************************************************************************)
(* The price map                                                           *)
(***************************************************************************)
\* f"gpe_price_{hour:02d}" and f"gpe_price_{hour:02d}_tomorrow"
PriceKey(hour) == <<hour \div 10, hour % 10, "">>
PriceKeyTomorrow(hour) == <<hour \div 10, hour % 10, "_tomorrow">>

\* data.get(key)
Get(data, key) == IF key \in DOMAIN data THEN data[key] ELSE None

\* key in data and data[key] is not None
HasPrice(data, key) == key \in DOMAIN data /\ data[key] # None

\* range(6, 18) and range(18, 24) + range(6)
DayHours == [i \in 1..12 |-> i + 5]
NightHours == [i \in 1..12 |-> IF i <= 6 THEN i + 17 ELSE i - 7]

\* min(prices) and max(prices) of a list are MinFrom(prices, 2, prices[1])
\* and MaxFrom(prices, 2, prices[1]): the first of the least (greatest)
\* elements, found with < (>) from the left
RECURSIVE MinFrom(_, _, _)
MinFrom(prices, i, best) ==
  IF i > Len(prices) THEN best
  ELSE MinFrom(prices, i + 1, IF FLess(prices[i], best) THEN prices[i] ELSE best)

RECURSIVE MaxFrom(_, _, _)
MaxFrom(prices, i, best) ==
  IF i > Len(prices) THEN best
  ELSE MaxFrom(prices, i + 1, IF FLess(best, prices[i]) THEN prices[i] ELSE best)


\* [data[k] for k in keys if k in data and data[k] is not None]
RECURSIVE PricesAt(_, _, _)
PricesAt(data, keys, i) ==
  IF i > Len(keys) THEN <<>>
  ELSE IF HasPrice(data, keys[i])
  THEN <<data[keys[i]]>> \o PricesAt(data, keys, i + 1)
  ELSE PricesAt(data, keys, i + 1)

(***************************************************************************)
(* Single-hour queries                                                     *)
(***************************************************************************)
\* (variant: tomorrow's keys are not left out)
get_highest_price_today_AllKeys(data, order) ==
  IF DOMAIN data = {} THEN None
  ELSE LET prices == PricesAt(data, order, 1)
       IN IF prices # <<>> THEN MaxFrom(prices, 2, prices[1]) ELSE None

\* the dict is the map data with its keys in insertion order, order: the
\* order data.items() yields them in
get_highest_price_today(data, order) ==
  IF DOMAIN data = {} THEN None
  ELSE LET today_prices ==
             PricesAt(data, SelectSeq(order, LAMBDA key : key[3] # "_tomorrow"), 1)
       IN IF today_prices # <<>> THEN MaxFrom(today_prices, 2, today_prices[1]) ELSE None

get_lowest_price_day(data) ==
  IF DOMAIN data = {} THEN None
  ELSE LET prices == PricesAt(data, [i \in 1..12 |-> PriceKey(i + 5)], 1)
       IN IF prices # <<>> THEN MinFrom(prices, 2, prices[1]) ELSE None

\* (variant: the morning hours are read from today's keys)
get_lowest_price_night_TodayMorning(data) ==
  IF DOMAIN data = {} THEN None
  ELSE LET prices == PricesAt(data, [i \in 1..12 |-> IF i <= 6 THEN PriceKey(i + 17)
                                                     ELSE PriceKey(i - 7)], 1)
       IN IF prices # <<>> THEN MinFrom(prices, 2, prices[1]) ELSE None

get_lowest_price_night(data) ==
  IF DOMAIN data = {} THEN None
  ELSE LET prices == PricesAt(data, [i \in 1..12 |-> IF i <= 6 THEN PriceKey(i + 17)
                                                     ELSE PriceKeyTomorrow(i - 7)], 1)
       IN IF prices # <<>> THEN MinFrom(prices, 2, prices[1]) ELSE None

\* (variant: a missing hour reads as price 0.0)
get_current_price_ZeroDefault(data, hour) ==
  IF PriceKey(hour) \in DOMAIN data THEN data[PriceKey(hour)] ELSE FZero

get_current_price(data, hour) ==
  IF DOMAIN data = {} THEN None ELSE Get(data, PriceKey(hour))

\* data.get(key) == price
PriceIs(value, price) == value # None /\ FEq(value, price)

\* (variant: the last matching hour instead of the first)
ScanToday_Last(data, price, hour, hi) ==
  LET hs == {h \in hour..(hi - 1) : PriceIs(Get(data, PriceKey(h)), price)}
  IN IF hs = {} THEN None ELSE <<CHOOSE h \in hs : \A g \in hs : g <= h>>

\* for hour in range(lo, hi): if data.get(key) == price: return price, hour
RECURSIVE ScanToday(_, _, _, _)
ScanToday(data, price, hour, hi) ==
  IF hour >= hi THEN None
  ELSE IF PriceIs(Get(data, PriceKey(hour)), price) THEN <<hour>>
  ELSE ScanToday(data, price, hour + 1, hi)

RECURSIVE ScanTomorrow(_, _, _, _)
ScanTomorrow(data, price, hour, hi) ==
  IF hour >= hi THEN None
  ELSE IF PriceIs(Get(data, PriceKeyTomorrow(hour)), price) THEN <<hour>>
  ELSE ScanTomorrow(data, price, hour + 1, hi)

get_highest_price_today_with_hour(data, order) ==
  LET Hour(highest_price) ==
        IF highest_price = None \/ DOMAIN data = {} THEN <<None, None>>
        ELSE <<highest_price, ScanToday(data, highest_price, 0, 24)>>
  IN Hour(get_highest_price_today(data, order))

get_lowest_price_day_with_hour(data) ==
  LET Hour(lowest_price) ==
        IF lowest_price = None \/ DOMAIN data = {} THEN <<None, None>>
        ELSE <<lowest_price, ScanToday(data, lowest_price, 6, 18)>>
  IN Hour(get_lowest_price_day(data))

\* (variant: tomorrow's morning hours are scanned before today's evening)
get_lowest_price_night_with_hour_MorningFirst(data) ==
  LET Hour(lowest_price) ==
        LET Morning(morning) ==
              IF morning # None THEN <<lowest_price, morning>>
              ELSE <<lowest_price, ScanToday(data, lowest_price, 18, 24)>>
        IN IF lowest_price = None \/ DOMAIN data = {} THEN <<None, None>>
           ELSE Morning(ScanTomorrow(data, lowest_price, 0, 6))
  IN Hour(get_lowest_price_night(data))

get_lowest_price_night_with_hour(data) ==
  LET Hour(lowest_price) ==
        LET Evening(evening) ==
              IF evening # None THEN <<lowest_price, evening>>
              ELSE <<lowest_price, ScanTomorrow(data, lowest_price, 0, 6)>>
        IN IF lowest_price = None \/ DOMAIN data = {} THEN <<None, None>>
           ELSE Evening(ScanToday(data, lowest_price, 18, 24))
  IN Hour(get_lowest_price_night(data))

(***************************************************************************)
(* Cheapest window                                                         *)
(***************************************************************************)
\* (variant: an hour without a price is listed with price 0.0)
BuildHourPrices_ZeroFill(data, hours, use_tomorrow, i) ==
  [n \in 1..Len(hours) |->
     LET hour == hours[n]
         price_key == IF use_tomorrow /\ hour < 6
                      THEN PriceKeyTomorrow(hour) ELSE PriceKey(hour)
     IN <<hour, IF HasPrice(data, price_key) THEN data[price_key] ELSE FZero>>]

\* (variant: hours 0..5 of the night are read from today's keys)
BuildHourPrices_TodayOnly(data, hours, use_tomorrow, i) ==
  LET priced == SelectSeq(hours, LAMBDA h : HasPrice(data, PriceKey(h)))
  IN [n \in 1..Len(priced) |-> <<priced[n], data[PriceKey(priced[n])]>>]

\* the list of (hour, price) tuples for the hours that have a price
RECURSIVE BuildHourPrices(_, _, _, _)
BuildHourPrices(data, hours, use_tomorrow, i) ==
  IF i > Len(hours) THEN <<>>
  ELSE LET hour == hours[i]
           price_key == IF use_tomorrow /\ hour < 6
                        THEN PriceKeyTomorrow(hour) ELSE PriceKey(hour)
       IN (IF HasPrice(data, price_key) THEN <<<<hour, data[price_key]>>>> ELSE <<>>)
            \o BuildHourPrices(data, hours, use_tomorrow, i + 1)

\* for j in range(window_size): the full hours of the window starting at i;
\* acc is <<window_sum, window_hours>>
RECURSIVE AddFullHours(_, _, _, _, _)
AddFullHours(hour_prices, i, j, window_size, acc) ==
  IF j >= window_size THEN acc
  ELSE IF i + j < Len(hour_prices)
  THEN AddFullHours(hour_prices, i, j + 1, window_size,
                    <<FAdd(acc[1], hour_prices[i + j + 1][2]), FAdd(acc[2], FOne)>>)
  ELSE AddFullHours(hour_prices, i, j + 1, window_size, acc)

\* int(duration_hours) and duration_hours % 1 != 0
WindowSize(duration_hours) == Trunc(duration_hours).value
HasFraction(duration_hours) == ~FEq(FMod1(duration_hours), FZero)

\* (variant: the fractional hour is counted but its price is not added)
AddFraction_NoPrice(hour_prices, i, window_size, duration_hours, acc) ==
  IF HasFraction(duration_hours) /\ i + window_size < Len(hour_prices)
  THEN <<acc[1], FAdd(acc[2], FMod1(duration_hours))>>
  ELSE acc

\* the fractional hour: fraction = duration_hours % 1, window_sum += price *
\* fraction and window_hours += fraction
AddFraction(hour_prices, i, window_size, duration_hours, acc) ==
  IF HasFraction(duration_hours) /\ i + window_size < Len(hour_prices)
  THEN <<FAdd(acc[1], FMul(hour_prices[i + window_size + 1][2], FMod1(duration_hours))),
         FAdd(acc[2], FMod1(duration_hours))>>
  ELSE acc

\* (variant: the plain mean over the slots touched)
AvgPrice_PlainMean(window_sum, duration_hours) ==
  FDiv(window_sum,
       FromInt(WindowSize(duration_hours) + IF HasFraction(duration_hours) THEN 1 ELSE 0))

\* window_sum / duration_hours
AvgPrice(window_sum, duration_hours) == FDiv(window_sum, duration_hours)

\* (variant: avg_price <= best_avg_price)
Improves_OrEqual(avg_price, best_avg_price) == ~FLess(best_avg_price, avg_price)

\* avg_price < best_avg_price
Improves(avg_price, best_avg_price) == FLess(avg_price, best_avg_price)

\* (variant: window_hours >= duration_hours + 0.01)
Covered_Over(window_hours, duration_hours) ==
  FLeq(FAdd(duration_hours, Tolerance), window_hours)

\* window_hours >= duration_hours - 0.01
Covered(window_hours, duration_hours) ==
  FLeq(FSub(duration_hours, Tolerance), window_hours)

\* if window_hours >= duration_hours - 0.01: the average of the window win,
\* <<window_sum, window_hours>>, is compared with best, <<best_avg_price,
\* best_start_hour>>
Better(best, win, duration_hours, start) ==
  LET \* if avg_price < best_avg_price: the window starting at hour start
      \* replaces best
      Lower(avg_price) ==
        IF Improves(avg_price, best[1]) THEN <<avg_price, <<start>>>> ELSE best
  IN IF Covered(win[2], duration_hours)
     THEN Lower(AvgPrice(win[1], duration_hours))
     ELSE best

\* for i in range(n): best is <<best_avg_price, best_start_hour>>; the
\* window starting at i is summed from window_sum = 0.0, window_hours = 0.0
RECURSIVE SlideWindow(_, _, _, _, _)
SlideWindow(hour_prices, duration_hours, i, n, best) ==
  IF i >= n THEN best
  ELSE SlideWindow(hour_prices, duration_hours, i + 1, n,
                   Better(best,
                          AddFraction(hour_prices, i, WindowSize(duration_hours),
                                      duration_hours,
                                      AddFullHours(hour_prices, i, 0,
                                                   WindowSize(duration_hours),
                                                   <<FZero, FZero>>)),
                          duration_hours, hour_prices[i + 1][1]))

\* (variant: duration_hours >= len(hours))
TooLong_OrEqual(hours, duration_hours) == FLeq(FromInt(Len(hours)), duration_hours)

\* duration_hours > len(hours)
TooLong(hours, duration_hours) == FLess(FromInt(Len(hours)), duration_hours)

\* (variant: len(hour_prices) - window_size + 1, fraction or not)
NumStarts_Inclusive(len, duration_hours) == len - WindowSize(duration_hours) + 1

\* len(hour_prices) - window_size + (0 if has_fraction else 1)
NumStarts(len, duration_hours) ==
  len - WindowSize(duration_hours) + (IF HasFraction(duration_hours) THEN 0 ELSE 1)

\* _find_cheapest_window, for duration_hours > 0
find_cheapest_window(data, hours, duration_hours, use_tomorrow) ==
  IF Len(hours) = 0 \/ TooLong(hours, duration_hours) THEN Returned(<<None, None>>)
  ELSE LET hour_prices == BuildHourPrices(data, hours, use_tomorrow, 1)
           \* return None, None if best_start_hour is None, else
           \* best_avg_price, best_start_hour
           Found(best) == Returned(IF best[2] = None THEN <<None, None>> ELSE best)
       IN IF Len(hour_prices) = 0 THEN Returned(<<None, None>>)
          \* window_size = int(duration_hours) raises for nan
          ELSE IF Trunc(duration_hours).kind = "raise" THEN Trunc(duration_hours)
          ELSE Found(SlideWindow(hour_prices, duration_hours, 0,
                                 NumStarts(Len(hour_prices), duration_hours),
                                 <<FInf, None>>))

\* (variant: only a negative duration is refused)
get_cheapest_duration_day_StrictGuard(data, duration_hours) ==
  IF DOMAIN data = {} \/ FLess(duration_hours, FZero) THEN Returned(<<None, None>>)
  ELSE find_cheapest_window(data, DayHours, duration_hours, FALSE)

get_cheapest_duration_day(data, duration_hours) ==
  IF DOMAIN data = {} \/ FLeq(duration_hours, FZero) THEN Returned(<<None, None>>)
  ELSE find_cheapest_window(data, DayHours, duration_hours, FALSE)

get_cheapest_duration_night(data, duration_hours) ==
  IF DOMAIN data = {} \/ FLeq(duration_hours, FZero) THEN Returned(<<None, None>>)
  ELSE find_cheapest_window(data, NightHours, duration_hours, TRUE)

(***************************************************************************)
(* Inputs                                                                  *)
(***************************************************************************)
\* the float of a decimal literal with two places: the float nearest to
\* n / 100
Hundredths(n) == FDiv(FromInt(n), FromInt(100))

PriceVals ==
  LET \* the prices drawn: 0.0, 0.15 and 0.30
      PriceCents == {0, 15, 30}
  IN  {Hundredths(c) : c \in PriceCents}

DayKeys == {PriceKey(h) : h \in 6..17}
NightKeys == {PriceKey(h) : h \in 18..23} \cup {PriceKeyTomorrow(h) : h \in 0..5}

MidnightWrapMaps ==
  LET \* the Night map of the midnight-wrap scenario (hour 23 at 0.20, tomorrow's
      \* hours 0 and 1 at 0.14 and 0.13), alone and with cheaper prices at today's
      \* hours 0 and 1
      MidnightWrap ==
        (PriceKey(23) :> Hundredths(20)) @@ (PriceKeyTomorrow(0) :> Hundredths(14))
          @@ (PriceKeyTomorrow(1) :> Hundredths(13))
  IN  {MidnightWrap,
       MidnightWrap @@ (PriceKey(0) :> Hundredths(1)) @@ (PriceKey(1) :> Hundredths(1))}

DataMaps ==
  LET \* every slot of the period present: one base price, other prices at up to
      \* MaxDips slots
      FullMapsOf(period) ==
        {[k \in period |-> IF k \in D THEN alt ELSE base] :
           base \in PriceVals, alt \in PriceVals,
           D \in {T \in SUBSET period : Cardinality(T) <= MaxDips}}
      SparseMaps ==
        LET \* the slots a sparse price map may hold: Day hours with a hole between
            \* them, Night hours on both sides of midnight, and hour 0 of both days
            KeyPool == {PriceKey(h) : h \in {0, 6, 7, 17, 23}}
                         \cup {PriceKeyTomorrow(h) : h \in {0, 5}}
        IN  UNION {[S -> PriceVals \cup {None}] :
                     S \in {T \in SUBSET KeyPool : Cardinality(T) <= MaxKeys}}
  IN  SparseMaps \cup FullMapsOf(DayKeys) \cup FullMapsOf(NightKeys) \cup MidnightWrapMaps

\* the keys of S in the order of their hours, tomorrow's after today's: the
\* insertion order of a dict filled hour by hour
RECURSIVE HourOrder(_)
HourOrder(S) ==
  IF S = {} THEN <<>>
  ELSE LET k == CHOOSE x \in S : \A y \in S :
                  \/ x[3] = "" /\ y[3] # ""
                  \/ x[3] = y[3] /\ 10 * x[1] + x[2] <= 10 * y[1] + y[2]
       IN <<k>> \o HourOrder(S \ {k})

\* the dicts passed to the queries, <<map, keys in insertion order>>: every
\* map of DataMaps filled hour by hour, the midnight-wrap maps also filled
\* backwards, hours 6 and 7 at 0.0 and -0.0 (two prices that compare
\* equal) in either order, and maps of prices of 1e308
Dicts ==
  LET Backwards(seq) == [i \in 1..Len(seq) |-> seq[Len(seq) + 1 - i]]
      SignedZeros ==
        {(PriceKey(6) :> FZero) @@ (PriceKey(7) :> FNeg(FZero)),
         (PriceKey(6) :> FNeg(FZero)) @@ (PriceKey(7) :> FZero)}
      \* 1e308, a finite price two of which sum to inf
      Huge == <<17, 13431685, 15452320, 971>>
      HugeMaps ==
        {(PriceKey(6) :> Huge) @@ (PriceKey(7) :> Huge),
         (PriceKey(6) :> Huge) @@ (PriceKey(7) :> Huge) @@ (PriceKey(8) :> Hundredths(15)),
         (PriceKey(22) :> Huge) @@ (PriceKey(23) :> Huge) @@ (PriceKeyTomorrow(0) :> Huge)}
  IN  {<<m, HourOrder(DOMAIN m)>> : m \in DataMaps \cup SignedZeros \cup HugeMaps}
        \cup {<<m, Backwards(HourOrder(DOMAIN m))>> : m \in MidnightWrapMaps \cup SignedZeros}

\* duration_hours arguments: -1.0, 0.0, 0.1, 0.5, 1.0, 1.3, 1.75, 2.0, 2.75,
\* 3.7, 11.5, 12.0, 12.25, 13.0 and nan
Durations == {Hundredths(n) : n \in {-100, 0, 10, 50, 100, 130, 175, 200, 275,
                                      370, 1150, 1200, 1225, 1300}} \cup {FNaN}

(***************************************************************************)
(* State: the price map held by the caller, and the caller's position in   *)
(* one query call (the method called, its arguments and what came back);   *)
(* the client's fields _session and _own_session, the sessions that exist  *)
(* with their open/closed state, the requests the call that returned has   *)
(* posted, and the coroutines of the client suspended at an await          *)
(***************************************************************************)
VARIABLES data, order, pc, op, args, ret, session, own_session, sessions,
          requests, tasks

vars == <<data, order, pc, op, args, ret, session, own_session, sessions,
          requests, tasks>>

\* the client's fields, its transport and its coroutines
client == <<session, own_session, sessions, requests, tasks>>

\* the methods class GreenPlanetEnergyAPI defines, with the names of their
\* parameters (self apart)
Parameters ==
  [name \in {"__init__", "__aenter__", "__aexit__", "close",
             "get_electricity_prices", "_process_response",
             "get_highest_price_today", "get_lowest_price_day",
             "get_lowest_price_night", "get_current_price",
             "get_highest_price_today_with_hour", "get_lowest_price_day_with_hour",
             "get_lowest_price_night_with_hour", "get_cheapest_duration_day",
             "get_cheapest_duration_night", "_find_cheapest_window"} |->
     CASE name = "__init__" -> {"session", "timeout"}
       [] name \in {"__aenter__", "close", "get_electricity_prices"} -> {}
       [] name = "__aexit__" -> {"exc_type", "exc_val", "exc_tb"}
       [] name = "_process_response" -> {"response_data"}
       [] name = "get_current_price" -> {"data", "hour"}
       [] name \in {"get_cheapest_duration_day", "get_cheapest_duration_night"} ->
            {"data", "duration_hours"}
       [] name = "_find_cheapest_window" ->
            {"data", "hours", "duration_hours", "use_tomorrow"}
       [] OTHER -> {"data"}]

Methods == DOMAIN Parameters

\* a call api.name(..., current_hour=h): looking up a method the class
\* lacks raises AttributeError, passing a keyword the signature lacks raises
\* TypeError; result is what the call without the keyword ends in
InvokeWithCurrentHour(name, result) ==
  IF name \notin Methods THEN Raised("AttributeError")
  ELSE IF "current_hour" \notin Parameters[name] THEN Raised("TypeError")
  ELSE result

\* the (duration, current_hour) pairs passed
ReferenceCalls == {<<FromInt(1), 17>>, <<FromInt(3), 23>>}

Init ==
  /\ \E dict \in Dicts : data = dict[1] /\ order = dict[2]
  /\ pc = "idle"
  /\ op = ""
  /\ args = <<>>
  /\ ret = NoRet
  /\ session = None
  /\ own_session = TRUE
  /\ sessions = <<>>
  /\ requests = 0
  /\ tasks = EmptyBag

Call(name, a, r) ==
  /\ pc = "idle"
  /\ pc' = "done"
  /\ op' = name
  /\ args' = a
  /\ ret' = r
  /\ UNCHANGED <<data, order, client>>

GetHighestPriceToday ==
  Call("get_highest_price_today", <<>>, Returned(get_highest_price_today(data, order)))

GetLowestPriceDay ==
  Call("get_lowest_price_day", <<>>, Returned(get_lowest_price_day(data)))

GetLowestPriceNight ==
  Call("get_lowest_price_night", <<>>, Returned(get_lowest_price_night(data)))

GetCurrentPrice ==
  LET QueryHours == {0, 6, 12}
  IN  \E hour \in QueryHours :
        Call("get_current_price", <<hour>>, Returned(get_current_price(data, hour)))

GetHighestPriceTodayWithHour ==
  Call("get_highest_price_today_with_hour", <<>>,
       Returned(get_highest_price_today_with_hour(data, order)))

GetLowestPriceDayWithHour ==
  Call("get_lowest_price_day_with_hour", <<>>,
       Returned(get_lowest_price_day_with_hour(data)))

GetLowestPriceNightWithHour ==
  Call("get_lowest_price_night_with_hour", <<>>,
       Returned(get_lowest_price_night_with_hour(data)))

GetCheapestDurationDay ==
  \E d \in Durations :
    Call("get_cheapest_duration_day", <<d>>,
         get_cheapest_duration_day(data, d))

GetCheapestDurationNight ==
  \E d \in Durations :
    Call("get_cheapest_duration_night", <<d>>,
         get_cheapest_duration_night(data, d))

GetCheapestDurationDayCurrentHour ==
  \E a \in ReferenceCalls :
    Call("get_cheapest_duration_day", a,
         InvokeWithCurrentHour("get_cheapest_duration_day",
                               get_cheapest_duration_day(data, a[1])))

GetCheapestDurationNightCurrentHour ==
  \E a \in ReferenceCalls :
    Call("get_cheapest_duration_night", a,
         InvokeWithCurrentHour("get_cheapest_duration_night",
                               get_cheapest_duration_night(data, a[1])))

GetCheapestDurationCurrentHour ==
  \E a \in ReferenceCalls :
    Call("get_cheapest_duration", a,
         InvokeWithCurrentHour("get_cheapest_duration", Returned(<<None, None>>)))

\* the caller takes the result and is ready for the next call
Return ==
  /\ pc = "done"
  /\ pc' = "idle"
  /\ op' = ""
  /\ args' = <<>>
  /\ ret' = NoRet
  /\ UNCHANGED <<data, order, client>>

Next ==
  \/ GetHighestPriceToday
  \/ GetLowestPriceDay
  \/ GetLowestPriceNight
  \/ GetCurrentPrice
  \/ GetHighestPriceTodayWithHour
  \/ GetLowestPriceDayWithHour
  \/ GetLowestPriceNightWithHour
  \/ GetCheapestDurationDay
  \/ GetCheapestDurationNight
  \/ GetCheapestDurationDayCurrentHour
  \/ GetCheapestDurationNightCurrentHour
  \/ GetCheapestDurationCurrentHour
  \/ Return

Spec == Init /\ [][Next]_vars

(***************************************************************************)
(* Strings of the vendor response.  A Python str is a sequence of Unicode  *)
(* code points; the operators below are the str methods and built-ins      *)
(* _process_response applies to the vendor's strings                       *)
(***************************************************************************)
\* ord(c) of a printable ASCII character
Ord(c) ==
  LET \* the characters from 32 (space) to 126 in code point order; "" stands
      \* where the grave accent, 96, would
      Ascii ==
        <<" ", "!", "\"", "#", "$", "%", "&", "'", "(", ")", "*", "+", ",", "-",
          ".", "/", "0", "1", "2", "3", "4", "5", "6", "7", "8", "9", ":", ";",
          "<", "=", ">", "?", "@", "A", "B", "C", "D", "E", "F", "G", "H", "I",
          "J", "K", "L", "M", "N", "O", "P", "Q", "R", "S", "T", "U", "V", "W",
          "X", "Y", "Z", "[", "\\", "]", "^", "_", "",
          "a", "b", "c", "d", "e", "f", "g", "h", "i", "j", "k", "l", "m", "n",
          "o", "p", "q", "r", "s", "t", "u", "v", "w", "x", "y", "z", "{", "|",
          "}", "~">>
  IN  31 + CHOOSE i \in 1..95 : Ascii[i] = c

\* the str written with the characters cs
RECURSIVE Str(_)
Str(cs) == IF cs = <<>> THEN <<>> ELSE <<Ord(Head(cs))>> \o Str(Tail(cs))

\* the code point of the digit zero in each run of Unicode decimal digits,
\* which int() and float() read as 0..9
DecimalZeros ==
  {48, 1632, 1776, 1984, 2406, 2534, 2662, 2790, 2918, 3046, 3174, 3302,
   3430, 3558, 3664, 3792, 3872, 4160, 4240, 6112, 6160, 6470, 6608, 6784,
   6800, 6992, 7088, 7232, 7248, 42528, 43216, 43264, 43472, 43504, 43600,
   44016, 65296, 66720, 68912, 69734, 69872, 69942, 70096, 70384, 70736,
   70864, 71248, 71360, 71472, 71904, 72016, 72784, 73040, 73120, 92768,
   92864, 93008, 120782, 120792, 120802, 120812, 120822, 123200, 123632,
   125264, 130032}

\* "0", "-", "+", ".", "_", "e" and "E"
Zero == Ord("0")
Minus == Ord("-")
Plus == Ord("+")
Point == Ord(".")
Underscore == Ord("_")

IsDigit(c) ==
  IF c < 128 THEN c - Zero \in 0..9
  ELSE \E z \in DecimalZeros : z <= c /\ c <= z + 9
DigitValue(c) ==
  IF c < 128 THEN c - Zero
  ELSE c - (CHOOSE z \in DecimalZeros : z <= c /\ c <= z + 9)

\* s[i - 1 : i - 1 + len(sub)] == sub
MatchesAt(s, sub, i) ==
  i + Len(sub) - 1 <= Len(s) /\ SubSeq(s, i, i + Len(sub) - 1) = sub

\* the least and the greatest of a non-empty set of positions
First(S) == CHOOSE i \in S : \A j \in S : i <= j
Last(S) == CHOOSE i \in S : \A j \in S : j <= i

\* the parts of s.split(sep) from position start on (s.split(sep) is
\* SplitFrom(s, sep, 1)): the separators are
\* found from left to right, one beginning where the last ended at the
\* earliest
RECURSIVE SplitFrom(_, _, _)
SplitFrom(s, sep, start) ==
  LET found == {i \in start..Len(s) : MatchesAt(s, sep, i)}
  IN IF found = {} THEN <<SubSeq(s, start, Len(s))>>
     ELSE <<SubSeq(s, start, First(found) - 1)>>
            \o SplitFrom(s, sep, First(found) + Len(sep))

\* s.replace(old, new) from position start on (s.replace(old, new) is
\* ReplaceFrom(s, old, new, 1))
RECURSIVE ReplaceFrom(_, _, _, _)
ReplaceFrom(s, old, new, start) ==
  LET found == {i \in start..Len(s) : MatchesAt(s, old, i)}
  IN IF found = {} THEN SubSeq(s, start, Len(s))
     ELSE SubSeq(s, start, First(found) - 1) \o new
            \o ReplaceFrom(s, old, new, First(found) + Len(old))

\* s without the white space at its two ends, as int() and float() take
\* their argument
Strip(s) ==
  LET \* the white space int() and float() skip at the two ends of their
      \* argument: the C locale's white space (tab, line feed, vertical tab, form
      \* feed, carriage return, space) and the Unicode spaces beyond ASCII
      Spaces ==
        {9, 10, 11, 12, 13, 32, 133, 160, 5760} \cup (8192..8202)
          \cup {8232, 8233, 8239, 8287, 12288}
      kept == {i \in 1..Len(s) : s[i] \notin Spaces}
  IN IF kept = {} THEN <<>> ELSE SubSeq(s, First(kept), Last(kept))

\* every underscore of s stands between two digits
Underscored(s) ==
  \A i \in 1..Len(s) :
     s[i] = Underscore => /\ 1 < i /\ i < Len(s)
                        /\ IsDigit(s[i - 1]) /\ IsDigit(s[i + 1])

\* the values of the digits of s, its underscores left out
DigitValues(s) ==
  LET digits == SelectSeq(s, LAMBDA c : c # Underscore)
  IN [i \in 1..Len(digits) |-> DigitValue(digits[i])]

\* a sequence of digit values without its leading zeros
NoLeadingZeros(ds) ==
  LET set == {i \in 1..Len(ds) : ds[i] # 0}
  IN IF set = {} THEN <<>> ELSE SubSeq(ds, First(set), Len(ds))

\* int(s): <<n>>, or None for ValueError.  A Python int has no bound but
\* the number of digits int() reads: n is kept as the decimal numeral
\* str(n) writes
int(s) ==
  LET \* the int written by the digit values digits, without leading zeros,
      \* after a minus sign or not
      Numeral(digits, minus) ==
        LET numeral == [i \in 1..Len(digits) |-> Zero + digits[i]]
        IN IF digits = <<>> THEN <<<<Zero>>>>
           ELSE IF minus THEN <<<<Minus>> \o numeral>>
           ELSE <<SubSeq(numeral, 1, Len(numeral))>>
      \* int(t) for a str t without white space at its ends
      Stripped(t) ==
        LET signed == t # <<>> /\ t[1] \in {Minus, Plus}
            body == IF signed THEN Tail(t) ELSE t
        IN IF body = <<>> \/ ~Underscored(body)
                \/ \E i \in 1..Len(body) : ~IsDigit(body[i]) /\ body[i] # Underscore
           THEN None
           \* sys.get_int_max_str_digits() is 4300 unless it is set: a
           \* numeral of more digits, leading zeros counted, is refused
           ELSE IF Len(DigitValues(body)) > 4300 THEN None
           ELSE Numeral(NoLeadingZeros(DigitValues(body)), t[1] = Minus)
  IN Stripped(Strip(s))

(***************************************************************************)
(* float(s): the decimal numeral is read exactly, as an integer of any     *)
(* length (a sequence of limbs, least significant first) times a power of  *)
(* ten, and rounded once to the nearest float                              *)
(***************************************************************************)
\* a * m + c for an integer a and 0 <= m, c < 128
RECURSIVE BigMulSmall(_, _, _)
BigMulSmall(a, m, c) ==
  IF a = <<>> THEN (IF c = 0 THEN <<>> ELSE <<c>>)
  ELSE LET v == Head(a) * m + c
       IN <<v % LimbBase>> \o BigMulSmall(Tail(a), m, v \div LimbBase)

\* the digits ds read from the left, eight a step and then one a step:
\* s is <<the integer so far, the position of the next digit>>
RECURSIVE BigDigitsLoop(_, _)
BigDigitsLoop(s, ds) ==
  LET \* a * 100 + 10 * d1 + d2
      Append2(a, d1, d2) == BigMulSmall(a, 100, 10 * d1 + d2)
      a == s[1]
      i == s[2]
  IN IF i > Len(ds) THEN s
     ELSE IF i + 7 <= Len(ds)
     THEN BigDigitsLoop(<<Append2(Append2(Append2(Append2(a, ds[i], ds[i + 1]),
                                                  ds[i + 2], ds[i + 3]),
                                          ds[i + 4], ds[i + 5]),
                                  ds[i + 6], ds[i + 7]),
                          i + 8>>, ds)
     ELSE BigDigitsLoop(<<BigMulSmall(a, 10, ds[i]), i + 1>>, ds)

\* s is <<an integer a, a number k>>: a * 5^k, twelve factors a step and
\* then three or one
RECURSIVE BigPow5Loop(_)
BigPow5Loop(s) ==
  LET By125(x) == BigMulSmall(x, 125, 0)
      a == s[1]
      k == s[2]
  IN IF k <= 0 THEN s
     ELSE IF k >= 12 THEN BigPow5Loop(<<By125(By125(By125(By125(a)))), k - 12>>)
     ELSE IF k >= 3 THEN BigPow5Loop(<<By125(a), k - 3>>)
     ELSE BigPow5Loop(<<BigMulSmall(a, 5, 0), k - 1>>)

\* the number of bits of a
BigBits(a) == IF a = <<>> THEN 0 ELSE 24 * (Len(a) - 1) + BitLen(a[Len(a)])

\* a * 2^r for 0 <= r < 24, c being the bits carried into the next limb
RECURSIVE BigShlBits(_, _, _)
BigShlBits(a, r, c) ==
  IF a = <<>> THEN (IF c = 0 THEN <<>> ELSE <<c>>)
  ELSE LET q == 2^(24 - r)
       IN <<(Head(a) % q) * (2^r) + c>> \o BigShlBits(Tail(a), r, Head(a) \div q)

\* a * 2^n
BigShl(a, n) ==
  IF a = <<>> THEN a
  ELSE [i \in 1..(n \div 24) |-> 0] \o BigShlBits(a, n % 24, 0)

\* a >= b, comparing from limb i down
RECURSIVE BigGeqFrom(_, _, _)
BigGeqFrom(a, b, i) ==
  IF i = 0 THEN TRUE
  ELSE IF a[i] # b[i] THEN a[i] > b[i]
  ELSE BigGeqFrom(a, b, i - 1)

\* the limbs from i on of a - b for a >= b, br being the borrow
RECURSIVE BigSubFrom(_, _, _, _)
BigSubFrom(a, b, i, br) ==
  IF i > Len(a) THEN <<>>
  ELSE LET v == a[i] - (IF i <= Len(b) THEN b[i] ELSE 0) - br
       IN IF v < 0 THEN <<v + LimbBase>> \o BigSubFrom(a, b, i + 1, 1)
          ELSE <<v>> \o BigSubFrom(a, b, i + 1, 0)

\* long division by b: s is <<the remainder, the quotient so far, j>>, and
\* the bits of weight 2^j down to 2^0 are found three a step
RECURSIVE BigDivLoop(_, _)
BigDivLoop(s, b) ==
  LET \* one bit of the quotient: r is <<the remainder, the
      \* quotient so far, j>> and the bit is that of weight 2^j
      Step(r) ==
        LET \* x - y for x >= y
            BigSub(x, y) ==
              LET diff == BigSubFrom(x, y, 1, 0)
                  set == {i \in 1..Len(diff) : diff[i] # 0}
              IN IF set = {} THEN <<>> ELSE SubSeq(diff, 1, Last(set))
            BigGeq(x, y) ==
              Len(x) > Len(y) \/ (Len(x) = Len(y) /\ BigGeqFrom(x, y, Len(x)))
            d == BigShl(b, r[3])
            q == ShlN(r[2], 1)
        IN IF BigGeq(r[1], d)
           THEN <<BigSub(r[1], d), <<q[1], q[2], q[3] + 1>>, r[3] - 1>>
           ELSE <<r[1], q, r[3] - 1>>
  IN IF s[3] < 2 THEN s
     ELSE BigDivLoop(Step(Step(Step(s))), b)

\* the float nearest to (num / den) * 2^dexp: when the two integers both
\* are floats their quotient is rounded by the float division, which is the
\* same single rounding
BigRatio(num, den, dexp) ==
  LET \* limb i of a
      BigLimb(a, i) == IF i <= Len(a) THEN a[i] ELSE 0
      \* the float equal to an integer 0 < a < 2^53
      BigExact(a) == NormUp(<<BigLimb(a, 3), BigLimb(a, 2), BigLimb(a, 1)>>, 0)
      Scaled(x) == <<x[1], x[2], x[3], x[4] + dexp>>
      \* the float nearest to (num / den) * 2^e for integers num, den > 0: the
      \* two are aligned for a quotient of 56 or 57 bits, and the remainder is
      \* the sticky bit of the rounding
      Round(e) ==
        LET shift == BigBits(den) - BigBits(num) + 56
            \* s is the division at its end: <<the remainder, the quotient, 0>>
            Rounded(s) ==
              RoundNorm(s[2][1], s[2][2], s[2][3], e - shift, 0, IF s[1] = <<>> THEN 0 ELSE 1)
        IN Rounded(BigDivLoop(<<IF shift > 0 THEN BigShl(num, shift) ELSE num, <<0, 0, 0>>, 56>>,
                              IF shift < 0 THEN BigShl(den, 0 - shift) ELSE den))
  IN IF BigBits(num) <= 53 /\ BigBits(den) <= 53
     THEN Scaled(FDiv(BigExact(num), BigExact(den)))
     ELSE Round(dexp)

\* the float nearest to ds * 10^dexp, ds being digit values without leading
\* or trailing zeros: 10^dexp is 5^dexp * 2^dexp
Decimal(ds, dexp) ==
  LET \* a * 5^k
      BigMulPow5(a, k) == BigPow5Loop(<<a, k>>)[1]
      \* the integer written by the digit values ds
      BigFromDigits(ds0) == BigDigitsLoop(<<<<>>, 1>>, ds0)[1]
  IN  IF ds = <<>> THEN FZero
      ELSE IF Len(ds) + dexp > 310 THEN FInf
      ELSE IF Len(ds) + dexp < 0 - 325 THEN FZero
      ELSE BigRatio(BigMulPow5(BigFromDigits(ds), dexp), BigMulPow5(<<1>>, 0 - dexp), dexp)

\* the number written by the digit values ds
RECURSIVE DigitsValue(_)
DigitsValue(ds) ==
  IF ds = <<>> THEN 0
  ELSE 10 * DigitsValue(SubSeq(ds, 1, Len(ds) - 1)) + ds[Len(ds)]

\* the number of digits of s from position i on
DigitRun(s, i) ==
  LET stops == {j \in i..Len(s) : ~IsDigit(s[j])}
  IN (IF stops = {} THEN Len(s) + 1 ELSE First(stops)) - i

\* the float nearest to ds * 10^dexp, ds being digit values
UnsignedValue(ds, dexp) ==
  LET \* a sequence of digit values without its trailing zeros
      NoTrailingZeros(d) ==
        LET set == {i \in 1..Len(d) : d[i] # 0}
        IN IF set = {} THEN <<>> ELSE SubSeq(d, 1, Last(set))
      lead == NoLeadingZeros(ds)
  IN <<Decimal(NoTrailingZeros(lead), dexp + Len(lead) - Len(NoTrailingZeros(lead)))>>

\* the numeral s with whole digits before its point and places digits
\* after it: an exponent may follow, e [sign] digits
UnsignedMarked(s, whole, places) ==
  LET \* the value of the digits of an exponent, or 10^6 when it is larger
      ExponentValue(e) ==
        LET d == NoLeadingZeros(e)
        IN IF Len(d) > 6 THEN 10^6 ELSE DigitsValue(d)
      CapitalE == Ord("E")
      SmallE == Ord("e")
      point == whole < Len(s) /\ s[whole + 1] = Point
      mark == whole + (IF point THEN 1 ELSE 0) + places + 1
      marked == mark <= Len(s) /\ s[mark] \in {SmallE, CapitalE}
      esigned == marked /\ mark < Len(s) /\ s[mark + 1] \in {Minus, Plus}
      from == mark + (IF esigned THEN 2 ELSE 1)
      exponent == IF ~marked THEN 0
                  ELSE (IF s[mark + 1] = Minus THEN 0 - 1 ELSE 1)
                         * ExponentValue(DigitValues(SubSeq(s, from, Len(s))))
  IN IF whole + places = 0 THEN None
     ELSE IF marked /\ (DigitRun(s, from) = 0 \/ from + DigitRun(s, from) # Len(s) + 1)
     THEN None
     ELSE IF ~marked /\ mark # Len(s) + 1 THEN None
     ELSE UnsignedValue(DigitValues(SubSeq(s, 1, whole)
                                      \o SubSeq(s, whole + 2, whole + 1 + places)),
                        exponent - places)

\* an unsigned numeral without underscores: digits [. digits] [e [sign]
\* digits] with a digit before or after the point, or inf, infinity or nan
\* in either case; <<x>>, or None when s is none of them
Unsigned(s) ==
  LET Nan == Str(<<"n", "a", "n">>)
      Infinity == Str(<<"i", "n", "f", "i", "n", "i", "t", "y">>)
      \* "inf", "infinity" and "nan"
      Inf == Str(<<"i", "n", "f">>)
      \* s.lower(), for ASCII letters
      LowerCase ==
        LET Capitals == Ord("A")..Ord("Z")
        IN  [i \in 1..Len(s) |-> IF s[i] \in Capitals THEN s[i] + 32 ELSE s[i]]
  IN IF LowerCase \in {Inf, Infinity} THEN <<FInf>>
     ELSE IF LowerCase = Nan THEN <<FNaN>>
     ELSE UnsignedMarked(s, DigitRun(s, 1),
                         IF DigitRun(s, 1) < Len(s) /\ s[DigitRun(s, 1) + 1] = Point
                         THEN DigitRun(s, DigitRun(s, 1) + 2) ELSE 0)

\* float(t) for a str t without white space at its ends
FloatStripped(t) ==
  LET signed == t # <<>> /\ t[1] \in {Minus, Plus}
      body == SelectSeq(IF signed THEN Tail(t) ELSE t, LAMBDA c : c # Underscore)
      \* the numeral x with its sign
      WithSign(x, minus) ==
        IF x = None THEN None
        ELSE IF x[1] = FNaN THEN x
        ELSE <<Signed(x[1], minus)>>
  IN IF ~Underscored(t) THEN None
     ELSE WithSign(Unsigned([i \in 1..Len(body) |->
                                IF IsDigit(body[i]) THEN Zero + DigitValue(body[i])
                                ELSE body[i]]),
                    signed /\ t[1] = Minus)

\* float(s): <<x>>, or None for ValueError
float(s) == FloatStripped(Strip(s))

(***************************************************************************)
(* Dates: date.today(), timedelta(days=1) and strftime("%d.%m.%y").  A     *)
(* date is <<year, month, day>>                                            *)
(***************************************************************************)
\* d + timedelta(days=1), or None for the OverflowError the day after
\* date.max, 9999-12-31, raises
NextDay(d) ==
  LET DaysIn(year, month) ==
        IF month = 2
        THEN (IF year % 4 = 0 /\ (year % 100 # 0 \/ year % 400 = 0) THEN 29 ELSE 28)
        ELSE IF month \in {4, 6, 9, 11} THEN 30
        ELSE 31
  IN  IF d[3] < DaysIn(d[1], d[2]) THEN <<d[1], d[2], d[3] + 1>>
      ELSE IF d[2] < 12 THEN <<d[1], d[2] + 1, 1>>
      ELSE IF d[1] < 9999 THEN <<d[1] + 1, 1, 1>>
      ELSE None

\* d.strftime("%d.%m.%y")
strftime(d) ==
  LET \* %d, %m and %y: two digits
      TwoDigits(n) == <<Zero + (n \div 10), Zero + (n % 10)>>
  IN  TwoDigits(d[3]) \o <<Point>> \o TwoDigits(d[2]) \o <<Point>>
        \o TwoDigits(d[1] % 100)

(***************************************************************************)
(* _process_response                                                       *)
(***************************************************************************)
\* " Uhr" and ", "
Uhr == Str(<<" ", "U", "h", "r">>)
CommaSpace == Str(<<",", " ">>)

\* the two date strings of an entry, today being what date.today() returns
\* while the entry is processed
today_str(today) == strftime(today)
tomorrow_str(today) == strftime(NextDay(today))

\* f"gpe_price_{hour:02d}" and f"gpe_price_{hour:02d}_tomorrow": the hour
\* is zero-padded to width 2, the sign counting in the width
HourKey(hour, suffix) == <<IF Len(hour) < 2 THEN <<Zero>> \o hour ELSE hour, suffix>>

RaisedWith(e, message) == [kind |-> "raise", value |-> <<message>>, exc |-> e]

\* d.get(key, default)
GetOr(d, key, default) == IF key \in DOMAIN d THEN d[key] ELSE default

\* the key suffix for the date of an entry, None for an unknown date
DayOf(date_part, today) ==
  IF date_part = today_str(today) THEN <<"">>
  ELSE IF date_part = tomorrow_str(today) THEN <<"_tomorrow">>
  ELSE None

\* for i, timestamp_str in enumerate(datum_array): ... (i counts from 1);
\* clock[i] is the date the clock shows while entry i is processed.  The
\* loop ends in the map it has filled or in an exception it does not catch
RECURSIVE ProcessEntries(_, _, _, _, _)
ProcessEntries(datum_array, wert_array, i, processed_data, clock) ==
  IF i > Len(datum_array) THEN Returned(processed_data)
  ELSE
    LET timestamp_str == datum_array[i]
        parts == SplitFrom(timestamp_str, CommaSpace, 1)
        time_part == ReplaceFrom(parts[2], Uhr, <<>>, 1)
        hour == int(SplitFrom(time_part, Str(<<":">>), 1)[1])
        day == DayOf(parts[1], clock[i])
        price_value == float(ReplaceFrom(wert_array[i], Str(<<",">>), Str(<<".">>), 1))
        skip == ProcessEntries(datum_array, wert_array, i + 1, processed_data, clock)
        \* processed_data[hour_key] = price_value
        Store(hour_key, value) ==
          [k \in DOMAIN processed_data \cup {hour_key} |->
             IF k = hour_key THEN value ELSE processed_data[k]]
    IN IF ~\E j \in 1..Len(timestamp_str) : MatchesAt(timestamp_str, Uhr, j) THEN skip
       ELSE IF Len(parts) < 2 THEN skip
       ELSE IF hour = None THEN skip
       \* tomorrow = today + timedelta(days=1) is outside the try's except
       \* clauses
       ELSE IF NextDay(clock[i]) = None THEN Raised("OverflowError")
       ELSE IF day = None THEN skip
       ELSE IF price_value = None THEN skip
       ELSE ProcessEntries(datum_array, wert_array, i + 1,
                           Store(HourKey(hour[1], day[1]), price_value[1]), clock)

\* response_data is [type |-> "null"] or [type |-> "object", members |-> dict]
process_response(response_data, clock) ==
  IF response_data.type # "object" THEN Raised("TypeError")
  ELSE IF "result" \notin DOMAIN response_data.members THEN Returned(<<>>)
  ELSE
    LET result == response_data.members["result"]
        datum_array == GetOr(result, "datum", <<>>)
        wert_array == GetOr(result, "wert", <<>>)
    IN IF GetOr(result, "errorCode", 0) # 0
       THEN RaisedWith("GreenPlanetEnergyAPIError", "API returned error")
       ELSE IF datum_array = <<>> \/ wert_array = <<>>
                 \/ Len(datum_array) # Len(wert_array)
       THEN Returned(<<>>)
       ELSE ProcessEntries(datum_array, wert_array, 1, <<>>, clock)

(***************************************************************************)
(* The client: its session and get_electricity_prices.  The methods are    *)
(* coroutines: between two awaits a coroutine runs alone, at an await it   *)
(* may be suspended while other tasks call the client                      *)
(***************************************************************************)
\* what the transport does with the posted request: the timeout expires or
\* the client fails at either await, or a status and then a body arrive
NoBody == [json |-> FALSE, data |-> [type |-> "null", members |-> <<>>]]
TimedOut(status) == [kind |-> "timeout", status |-> status, body |-> NoBody]
ClientFailed(status) == [kind |-> "client_error", status |-> status, body |-> NoBody]
Responded(status, body) == [kind |-> "response", status |-> status, body |-> body]

\* data = await response.json(content_type=None) and
\* return self._process_response(data)
AwaitBody(outcome, clock) ==
  IF outcome.kind = "timeout" THEN Raised("TimeoutError")
  ELSE IF outcome.kind = "client_error" THEN Raised("ClientError")
  ELSE IF ~outcome.body.json THEN Raised("JSONDecodeError")
  ELSE process_response(outcome.body.data, clock)

\* the except clauses
Handle(r) ==
  LET \* the classes an exception of class e is an instance of; a class that
      \* is not listed derives from neither TimeoutError nor ClientError
      ExceptionBases(e) ==
        CASE e = "TimeoutError" -> {"TimeoutError", "OSError", "Exception"}
          [] e = "ClientError" -> {"ClientError", "Exception"}
          [] e \in {"ClientConnectionError", "ClientResponseError",
                    "ClientPayloadError"} -> {e, "ClientError", "Exception"}
          [] e = "ServerTimeoutError" ->
               {"ServerTimeoutError", "ClientConnectionError", "ClientError",
                "TimeoutError", "OSError", "Exception"}
          [] e = "JSONDecodeError" -> {"JSONDecodeError", "ValueError", "Exception"}
          [] e = "OverflowError" -> {"OverflowError", "ArithmeticError", "Exception"}
          [] e = "GreenPlanetEnergyAPIError" ->
               {"GreenPlanetEnergyAPIError", "GreenPlanetEnergyError", "Exception"}
          [] e = "GreenPlanetEnergyConnectionError" ->
               {"GreenPlanetEnergyConnectionError", "GreenPlanetEnergyError", "Exception"}
          [] OTHER -> {e, "Exception"}
  IN IF r.kind # "raise" THEN r
     ELSE IF "TimeoutError" \in ExceptionBases(r.exc)
     THEN RaisedWith("GreenPlanetEnergyConnectionError",
                     "Timeout while communicating with API")
     ELSE IF "ClientError" \in ExceptionBases(r.exc)
     THEN RaisedWith("GreenPlanetEnergyConnectionError", "Error communicating with API")
     ELSE r

\* (variant: the request is posted without looking at the session)
get_electricity_prices_NoGuard(self_session, today) ==
  IF NextDay(today) = None THEN <<Raised("OverflowError"), 0>> ELSE <<NoRet, 1>>

\* get_electricity_prices up to its first await, called on the date today:
\* <<what the call ends in (NoRet when it goes on), the number of requests
\* it posted>>.  The payload takes today and tomorrow from the clock.
\* Entering asyncio.timeout does not suspend, so the test of the session
\* and the post on it are one step
get_electricity_prices(self_session, today) ==
  IF self_session = None
  THEN <<RaisedWith("GreenPlanetEnergyConnectionError", "Session not initialized"), 0>>
  ELSE IF NextDay(today) = None THEN <<Raised("OverflowError"), 0>>
  ELSE <<NoRet, 1>>

NewSession(by) == [by |-> by, closed |-> FALSE]

\* __aenter__: <<_session, sessions>> afterwards
aenter(self_session, self_own_session, all) ==
  IF self_own_session
  THEN <<<<Len(all) + 1>>, Append(all, NewSession("client"))>>
  ELSE <<self_session, all>>

\* (variant: the session is closed whoever created it)
close_Unconditional(self_session, self_own_session, all) ==
  IF self_session # None
  THEN <<TRUE, [all EXCEPT ![self_session[1]].closed = TRUE]>>
  ELSE <<FALSE, all>>

\* close up to its await: <<whether self._session.close() is awaited, the
\* sessions afterwards>>.  The session is closed when its close() is
\* called; _session is dropped once the await is over
close(self_session, self_own_session, all) ==
  IF self_own_session /\ self_session # None
  THEN <<TRUE, [all EXCEPT ![self_session[1]].closed = TRUE]>>
  ELSE <<FALSE, all>>

(***************************************************************************)
(* Inputs of the client: the vendor's arrays, the clock and the            *)
(* transport's outcomes                                                    *)
(***************************************************************************)
\* the longest datum/wert arrays drawn, the most sessions created, the
\* most coroutines suspended at a time, and the most midnights that pass
\* between the call and the last entry of its response
MaxEntries == 2
MaxSessions == 2
MaxTasks == 2
MaxMidnights == 1

\* the dates get_electricity_prices is called on: a day of 2025, date.max
\* and the day before it
StartDate == <<2025, 8, 4>>
CallDates == {StartDate, <<9999, 12, 30>>, <<9999, 12, 31>>}

\* the date n days after d, None when there is none
RECURSIVE DaysLater(_, _)
DaysLater(d, n) ==
  IF n = 0 THEN d
  ELSE IF DaysLater(d, n - 1) = None THEN None
  ELSE NextDay(DaysLater(d, n - 1))

\* "04.08.25, 09:00 Uhr" and its variants: tomorrow's "05.08.25, 00:00 Uhr",
\* hour 24, hour "\t1_0" (a tab is code point 9), an unknown date, the day after
\* tomorrow, no " Uhr", no ", " and an hour that is not a number
Timestamps ==
  LET OClock == Str(<<":", "0", "0">>)
      \* the day before, for a date that is neither today nor tomorrow
      other_str == Str(<<"0", "3", ".", "0", "8", ".", "2", "5">>)
  IN  {strftime(StartDate) \o CommaSpace \o Str(<<"0", "9">>) \o OClock \o Uhr,
       strftime(NextDay(StartDate)) \o CommaSpace \o Str(<<"0", "0">>) \o OClock \o Uhr,
       strftime(StartDate) \o CommaSpace \o Str(<<"2", "4">>) \o OClock \o Uhr,
       strftime(StartDate) \o CommaSpace \o <<9>> \o Str(<<"1", "_", "0">>) \o OClock \o Uhr,
       other_str \o CommaSpace \o Str(<<"0", "9">>) \o OClock \o Uhr,
       strftime(DaysLater(StartDate, 2)) \o CommaSpace \o Str(<<"1", "1">>) \o OClock \o Uhr,
       strftime(StartDate) \o CommaSpace \o Str(<<"0", "9">>) \o OClock,
       strftime(StartDate) \o Str(<<" ">>) \o Str(<<"0", "9">>) \o OClock \o Uhr,
       strftime(StartDate) \o CommaSpace \o Str(<<"x", "x">>) \o OClock \o Uhr}

JsonObject(members) == [type |-> "object", members |-> members]

\* the result member: an error, no arrays, arrays of equal length, and a
\* datum array without its wert
Results ==
  LET EntryLists ==
        LET \* the entries drawn: every timestamp with the price "0,25" and every
            \* price at "04.08.25, 09:00 Uhr"
            Entries ==
              LET \* "0,25", "0,3", "0,2516", "-0,05", "\xa02_5e-2\n" (a no-break space is
                  \* code point 160, a line feed 10), ",5", "inf" and "abc"
                  Werts ==
                    {Str(<<"0", ",", "2", "5">>), Str(<<"0", ",", "3">>),
                     Str(<<"0", ",", "2", "5", "1", "6">>), Str(<<"-", "0", ",", "0", "5">>),
                     <<160>> \o Str(<<"2", "_", "5", "e", "-", "2">>) \o <<10>>,
                     Str(<<",", "5">>), Str(<<"i", "n", "f">>), Str(<<"a", "b", "c">>)}
              IN  {<<t, Str(<<"0", ",", "2", "5">>)>> : t \in Timestamps}
                    \cup {<<strftime(StartDate) \o CommaSpace
                              \o Str(<<"0", "9", ":", "0", "0">>) \o Uhr, w>> :
                            w \in Werts}
        IN  UNION {[1..n -> Entries] : n \in 0..MaxEntries}
  IN  {[errorCode |-> 1, errorText |-> "API Error occurred"], <<>>}
        \cup {[errorCode |-> 0,
               datum |-> [i \in DOMAIN e |-> e[i][1]],
               wert |-> [i \in DOMAIN e |-> e[i][2]]] : e \in EntryLists}
        \cup {[errorCode |-> 0, datum |-> <<t>>, wert |-> <<>>] : t \in Timestamps}

ResponseData ==
  LET JsonNull == [type |-> "null", members |-> <<>>]
  IN  {JsonNull, JsonObject(<<>>)} \cup {JsonObject([result |-> r]) : r \in Results}

\* for a call made on the date today: what the await of the body ends in,
\* the readings of the clock while the body is processed, and the result
\* of the call
Bodies ==
  LET \* the readings of the clock over n entries.  Each entry reads the clock
      \* afresh, after the awaits of the response and of the body: the date
      \* is the date of the call or a later one, never goes back, and moves
      \* on by a day when midnight passes before an entry
      Clocks(today, n) ==
        {[i \in 1..n |-> DaysLater(today, c[i])] :
           c \in {c \in [1..n -> 0..MaxMidnights] :
                    /\ \A i \in 1..(n - 1) : c[i + 1] - c[i] \in {0, 1}
                    /\ \A i \in 1..n : DaysLater(today, c[i]) # None}}
      \* the entries of a response body
      EntriesOf(d) ==
        IF d.type = "object" /\ "result" \in DOMAIN d.members
        THEN Len(GetOr(d.members["result"], "datum", <<>>))
        ELSE 0
  IN  {<<today, o, <<>>, Handle(AwaitBody(o, <<>>))>> :
         today \in CallDates,
         o \in {TimedOut(200), ClientFailed(200), Responded(200, NoBody)}}
        \cup UNION {{<<today, Responded(200, [json |-> TRUE, data |-> d]), clock,
                       Handle(AwaitBody(Responded(200, [json |-> TRUE, data |-> d]), clock))>> :
                       clock \in Clocks(today, EntriesOf(d))} :
                     today \in CallDates, d \in ResponseData}

(***************************************************************************)
(* The client's calls.  A call that runs to its end without suspending is  *)
(* one step; a call that awaits is suspended there (a coroutine in tasks)  *)
(* and resumed by a later step, other calls running in between.  pc, op,   *)
(* args and ret show the call that has just returned                       *)
(***************************************************************************)
\* GreenPlanetEnergyAPI(session) or GreenPlanetEnergyAPI()
ClientInit ==
  /\ data = <<>>
  /\ order = <<>>
  /\ pc = "idle"
  /\ op = ""
  /\ args = <<>>
  /\ ret = NoRet
  /\ \E supplied \in BOOLEAN :
       /\ session = IF supplied THEN <<1>> ELSE None
       /\ own_session = ~supplied
       /\ sessions = IF supplied THEN <<NewSession("caller")>> ELSE <<>>
  /\ requests = 0
  /\ tasks = EmptyBag

\* the call name returns r
ClientCall(name, a, r) ==
  /\ pc = "idle"
  /\ pc' = "done"
  /\ op' = name
  /\ args' = a
  /\ ret' = r
  /\ UNCHANGED <<data, order, own_session>>

\* a coroutine of the call name, suspended at an await
\* (today is the date a get_electricity_prices call was made on, None for
\* close, which reads no date)
Coroutine(name, at, self_session, posted, today) ==
  [op |-> name, at |-> at, session |-> self_session, posted |-> posted,
   today |-> today]

\* a call is suspended as the coroutine c
Suspend(c) ==
  /\ pc = "idle"
  /\ BagCardinality(tasks) < MaxTasks
  /\ tasks' = tasks (+) SetToBag({c})
  /\ UNCHANGED <<data, order, pc, op, args, ret, own_session>>

\* the coroutine c is resumed and runs to its end
Resume(c) ==
  /\ BagIn(c, tasks)
  /\ tasks' = tasks (-) SetToBag({c})

AEnter ==
  /\ own_session => Len(sessions) < MaxSessions
  /\ ClientCall("__aenter__", <<>>, Returned(<<"self">>))
  /\ session' = aenter(session, own_session, sessions)[1]
  /\ sessions' = aenter(session, own_session, sessions)[2]
  /\ UNCHANGED <<requests, tasks>>

\* close(), called as name, up to await self._session.close()
CloseBegin(name) ==
  LET c == close(session, own_session, sessions)
  IN IF c[1]
     THEN /\ Suspend(Coroutine(name, "close", session, 0, None))
          /\ sessions' = c[2]
          /\ UNCHANGED <<session, requests>>
     ELSE /\ ClientCall(name, <<>>, Returned(None))
          /\ UNCHANGED <<session, sessions, requests, tasks>>

\* the caller calls close()
Close ==
  /\ pc = "idle"
  /\ CloseBegin("close")

\* the caller leaves the async with block: await self.close()
AExit ==
  /\ pc = "idle"
  /\ CloseBegin("__aexit__")

\* the await of self._session.close() is over: self._session = None
SessionClosed ==
  \E c \in BagToSet(tasks) :
    /\ c.at = "close"
    /\ Resume(c)
    /\ ClientCall(c.op, <<>>, Returned(None))
    /\ session' = None
    /\ UNCHANGED <<sessions, requests>>

\* the test of the session and the post of the request
GetElectricityPrices ==
  \E today \in CallDates :
    LET r == get_electricity_prices(session, today)
    IN IF r[1].kind = "raise"
       THEN /\ ClientCall("get_electricity_prices", <<session, today>>, r[1])
            /\ requests' = r[2]
            /\ UNCHANGED <<session, sessions, tasks>>
       ELSE /\ Suspend(Coroutine("get_electricity_prices", "response", session, r[2],
                                 today))
            /\ UNCHANGED <<session, sessions, requests>>

\* the await of the response is over: an exception, a status other than
\* 200, or the call goes on to await the body
ResponseArrives ==
  LET \* what the await of the response ends in
      Replies == {TimedOut(0), ClientFailed(0), Responded(500, NoBody), Responded(200, NoBody)}
      \* async with self._session.post(...) as response: the await of the
      \* response and the status check; NoRet when the call goes on to the body
      AwaitResponse(outcome) ==
        IF outcome.kind = "timeout" THEN Raised("TimeoutError")
        ELSE IF outcome.kind = "client_error" THEN Raised("ClientError")
        ELSE IF outcome.status # 200
        THEN RaisedWith("GreenPlanetEnergyAPIError", "API request failed with status")
        ELSE NoRet
  IN  \E c \in BagToSet(tasks), outcome \in Replies :
        /\ c.at = "response"
        /\ LET r == Handle(AwaitResponse(outcome))
           IN IF r.kind = "raise"
              THEN /\ Resume(c)
                   /\ ClientCall(c.op, <<c.session, c.today, outcome>>, r)
                   /\ requests' = c.posted
                   /\ UNCHANGED <<session, sessions>>
              ELSE /\ pc = "idle"
                   /\ tasks' = (tasks (-) SetToBag({c}))
                                 (+) SetToBag({Coroutine(c.op, "body", c.session, c.posted,
                                                         c.today)})
                   /\ UNCHANGED <<data, order, pc, op, args, ret, session, own_session,
                                  sessions, requests>>

\* the await of the body is over: the call returns or raises
BodyArrives ==
  \E c \in BagToSet(tasks), b \in Bodies :
    /\ c.at = "body"
    /\ b[1] = c.today
    /\ Resume(c)
    /\ ClientCall(c.op, <<c.session, c.today, b[2], b[3]>>, b[4])
    /\ requests' = c.posted
    /\ UNCHANGED <<session, sessions>>

ClientNext ==
  \/ AEnter
  \/ AExit
  \/ Close
  \/ GetElectricityPrices
  \/ ResponseArrives
  \/ BodyArrives
  \/ SessionClosed
  \/ Return

ClientSpec == ClientInit /\ [][ClientNext]_vars

(***************************************************************************)
(* Vocabulary of the properties: the periods as sequences of slots, the    *)
(* gap-skipped sequence of a period and the weighted average of a          *)
(* placement, stated from the specification's description                  *)
(***************************************************************************)
DaySlots == [i \in 1..12 |-> PriceKey(i + 5)]
NightSlots == [i \in 1..12 |-> IF i <= 6 THEN PriceKey(i + 17)
                                         ELSE PriceKeyTomorrow(i - 7)]
SlotHour(k) == 10 * k[1] + k[2]

DayCall == pc = "done" /\ op = "get_cheapest_duration_day" /\ Len(args) = 1
NightCall == pc = "done" /\ op = "get_cheapest_duration_night" /\ Len(args) = 1
WindowCall == DayCall \/ NightCall
CallSlots == IF op = "get_cheapest_duration_day" THEN DaySlots ELSE NightSlots
Duration == args[1]
Present == ret.kind = "return" /\ ret.value[1] # None

\* the duration is a number: the properties speak of durations that compare
\* with 0 and 12, which nan does not
IsNumber(d) == d # FNaN

\* the slots of the period that have a price, in the period's order
Materialized(slots) == SelectSeq(slots, LAMBDA k : HasPrice(data, k))

\* ceil(d) for a duration d
CeilHours(d) == IF HasFraction(d) /\ ~IsNeg(d) THEN WindowSize(d) + 1 ELSE WindowSize(d)

\* the start indices that have ceil(d) entries from them on
Placements(seq, d) == {i \in 1..Len(seq) : i + CeilHours(d) - 1 <= Len(seq)}

RECURSIVE SumPrices(_, _, _)
SumPrices(seq, i, count) ==
  IF count = 0 THEN FZero
  ELSE FAdd(SumPrices(seq, i, count - 1), data[seq[i + count - 1]])

\* (price[i] + ... + price[i+floor(d)-1] + (d - floor(d)) * price[i+floor(d)]) / d
WeightedAverage(seq, i, d) ==
  LET whole == WindowSize(d)
      part == FSub(d, FromInt(whole))
      cost == IF part = FZero THEN SumPrices(seq, i, whole)
              ELSE FAdd(SumPrices(seq, i, whole), FMul(part, data[seq[i + whole]]))
  IN FDiv(cost, d)

\* every placement with its weighted average, as pairs <<i, average>>
Averages(seq, d) == {<<i, WeightedAverage(seq, i, d)>> : i \in Placements(seq, d)}

\* the placements whose average is the least one
LeastOf(avg) == {p[1] : p \in {q \in avg : \A r \in avg : ~FLess(r[2], q[2])}}
Cheapest(seq, d) == LeastOf(Averages(seq, d))

MinOf(S) == CHOOSE x \in S : \A y \in S : x <= y
FMin(S) == CHOOSE x \in S : \A y \in S : ~FLess(y, x)
FMax(S) == CHOOSE x \in S : \A y \in S : ~FLess(x, y)
Range(f) == {f[i] : i \in DOMAIN f}

\* the slot at which the first of the cheapest placements starts
FirstCheapest(seq, d) == seq[MinOf(Cheapest(seq, d))]

(***************************************************************************)
(* C1: for Day and Night and every duration d > 0, a returned average      *)
(* price is the least duration-weighted average over all placements of     *)
(* the gap-skipped period sequence: full slots weigh 1, the trailing slot  *)
(* weighs the fractional part of d, and the sum is divided by d.           *)
(***************************************************************************)
C1_WeightedMinimum ==
  (WindowCall /\ FLess(FZero, Duration) /\ Present) =>
     LET seq == Materialized(CallSlots)
     IN /\ Placements(seq, Duration) # {}
        /\ ret.value[1] = FMin({p[2] : p \in Averages(seq, Duration)})

\* a fractional window over three slots of different prices was found, and
\* its average is not the plain mean of the three prices
C1_Witness ==
  /\ DayCall /\ Duration = Hundredths(275) /\ Present
  /\ LET seq == Materialized(DaySlots)
     IN /\ Len(seq) = 3
        /\ data[seq[1]] # data[seq[3]]
        /\ ret.value[1] # FDiv(SumPrices(seq, 1, 3), FromInt(3))

(***************************************************************************)
(* C2: when several placements have the same least average, the start      *)
(* hour returned is that of the placement scanned first in the period's    *)
(* chronological order.                                                    *)
(***************************************************************************)
C2_FirstOfTies ==
  (WindowCall /\ FLess(FZero, Duration) /\ Present) =>
     ret.value[2] = <<SlotHour(FirstCheapest(Materialized(CallSlots), Duration))>>

TiesAcrossMidnight(seq, least) ==
  \E i, j \in least : seq[i][3] = "" /\ seq[j][3] = "_tomorrow"

\* a Night search in which a placement before midnight and one after it tie
C2_Witness ==
  /\ NightCall /\ FLess(FZero, Duration) /\ Present
  /\ TiesAcrossMidnight(Materialized(NightSlots), Cheapest(Materialized(NightSlots), Duration))

(***************************************************************************)
(* C3: a cheapest-window search of duration 1 returns the same (price,     *)
(* hour) pair as the lowest-price-with-hour query of the same period.      *)
(***************************************************************************)
\* == of two (price, hour) pairs: the hours are the same and the prices are
\* both None or compare equal as floats
SamePair(p, q) ==
  /\ p[2] = q[2]
  /\ IF p[1] = None \/ q[1] = None THEN p[1] = q[1] ELSE FEq(p[1], q[1])

C3_DurationOneIsLowest ==
  /\ (DayCall /\ Duration = FOne) =>
        /\ ret.kind = "return"
        /\ SamePair(ret.value, get_lowest_price_day_with_hour(data))
  /\ (NightCall /\ Duration = FOne) =>
        /\ ret.kind = "return"
        /\ SamePair(ret.value, get_lowest_price_night_with_hour(data))

\* a duration-1 Night search over a map in which two slots tie for the
\* lowest price
C3_Witness ==
  /\ NightCall /\ Duration = FOne /\ Present
  /\ LET seq == Materialized(NightSlots)
     IN \E i, j \in 1..Len(seq) :
          i < j /\ FEq(data[seq[i]], ret.value[1]) /\ FEq(data[seq[j]], ret.value[1])

(***************************************************************************)
(* C4: a returned average price is never below the lowest single-hour      *)
(* price among the period's slots that have a price.                       *)
(*                                                                         *)
(* As stated this fails: the float sum and the float division each round,  *)
(* and the rounded average of equal prices can land just under the price.  *)
(* What holds is the bound up to that rounding: the average is at least    *)
(* the lowest price times (1 - 2^-49).                                     *)
(***************************************************************************)
LowestPrice(slots) == FMin({data[k] : k \in {q \in Range(slots) : HasPrice(data, q)}})

C4_NeverBelowLowest ==
  (WindowCall /\ Present) => ~FLess(ret.value[1], LowestPrice(CallSlots))

\* m + k for a significand m = <<h, mi, lo>> and a small integer k
AddSmall(m, k) ==
  LET lo == m[3] + k
      mi == m[2] + (lo \div LimbBase)
  IN <<m[1] + (mi \div LimbBase), mi % LimbBase, lo % LimbBase>>

SigLeq(m, n) ==
  \/ m[1] < n[1]
  \/ m[1] = n[1] /\ m[2] < n[2]
  \/ m[1] = n[1] /\ m[2] = n[2] /\ m[3] <= n[3]

\* a >= b * (1 - 2^-49), for floats a and b
WithinRounding(a, b) ==
  IF ~FLess(a, b) THEN TRUE
  ELSE IF a = FZero THEN FALSE
  ELSE LET am == <<a[1], a[2], a[3]>>
           bm == <<b[1], b[2], b[3]>>
       IN IF a[4] = b[4] THEN SigLeq(bm, AddSmall(am, b[1] \div 2))
          ELSE IF a[4] = b[4] - 1 THEN SigLeq(ShlN(bm, 1), AddSmall(am, b[1]))
          ELSE FALSE

C4_LowestUpToRounding ==
  (WindowCall /\ Present) => WithinRounding(ret.value[1], LowestPrice(CallSlots))

\* a window of equal prices whose returned average is under the price
C4_Witness ==
  /\ WindowCall /\ Present /\ Duration = Hundredths(175)
  /\ FLess(ret.value[1], LowestPrice(CallSlots))

(***************************************************************************)
(* C5: the search returns (None, None), and does not raise, whenever the   *)
(* duration is <= 0 or fewer slots of the period have a price than         *)
(* ceil(duration); so it does for every duration over 12.                  *)
(***************************************************************************)
C5_NoWindow ==
  (WindowCall /\ IsNumber(Duration)
              /\ (FLeq(Duration, FZero)
                    \/ Len(Materialized(CallSlots)) < CeilHours(Duration)
                    \/ FLess(FromInt(Len(CallSlots)), Duration))) =>
     ret = Returned(<<None, None>>)

\* a positive duration that the priced slots of the period cannot cover
C5_Witness ==
  /\ NightCall /\ Duration = Hundredths(275)
  /\ Len(Materialized(NightSlots)) = 2
  /\ ret = Returned(<<None, None>>)

(***************************************************************************)
(* C6: with all 12 slots of the period priced, duration 12 returns the     *)
(* whole period (start hour 6 for Day, 18 for Night, average = sum of the  *)
(* 12 prices / 12), and duration 13 returns (None, None).                  *)
(***************************************************************************)
AllPriced(slots) == \A i \in 1..Len(slots) : HasPrice(data, slots[i])
WholePeriod(slots) ==
  <<FDiv(SumPrices(slots, 1, Len(slots)), FromInt(Len(slots))), <<SlotHour(slots[1])>>>>

C6_PeriodLengthBoundary ==
  (WindowCall /\ AllPriced(CallSlots)) =>
     /\ Duration = FromInt(Len(CallSlots)) =>
          /\ ret = Returned(WholePeriod(CallSlots))
          /\ ret.value[2] = IF DayCall THEN <<6>> ELSE <<18>>
     /\ Duration = FromInt(Len(CallSlots) + 1) => ret = Returned(<<None, None>>)

\* a 12-hour Day search over a full period whose first hour is its dearest
C6_Witness ==
  /\ DayCall /\ Duration = Hundredths(1200) /\ AllPriced(DaySlots) /\ Present
  /\ FLess(data[DaySlots[12]], data[DaySlots[1]])

(***************************************************************************)
(* C7: a slot missing from the map never counts as price 0: the window     *)
(* returned starts at a slot that has a price and is made of the next      *)
(* ceil(duration) slots that have one, in the period's order, leaving out  *)
(* the holes between them.                                                 *)
(***************************************************************************)
\* the index in the period of the slot with this hour
IndexOfHour(slots, hour) == CHOOSE i \in 1..Len(slots) : SlotHour(slots[i]) = hour

\* the priced slots of the period from the slot with this hour on
PricedFrom(slots, hour) ==
  SelectSeq(SubSeq(slots, IndexOfHour(slots, hour), Len(slots)),
            LAMBDA k : HasPrice(data, k))

SpansPricedSlots(slots, hour, avg) ==
  /\ HasPrice(data, slots[IndexOfHour(slots, hour)])
  /\ Len(PricedFrom(slots, hour)) >= CeilHours(Duration)
  /\ avg = WeightedAverage(PricedFrom(slots, hour), 1, Duration)

C7_GapsAreSkipped ==
  (WindowCall /\ FLess(FZero, Duration) /\ Present) =>
     SpansPricedSlots(CallSlots, ret.value[2][1], ret.value[1])

\* the window found starts at hour 7 and reaches over the hole to hour 17
C7_Witness ==
  /\ DayCall /\ Duration = Hundredths(200) /\ Present
  /\ ret.value[2] = <<7>>
  /\ ~HasPrice(data, PriceKey(8))
  /\ HasPrice(data, PriceKey(17))
  /\ FLess(FZero, ret.value[1])

(***************************************************************************)
(* C8: the cheapest-window entry points (Day, Night and the full-horizon   *)
(* get_cheapest_duration) take an optional current_hour; given it, no      *)
(* Today slot before that hour takes part: a Day search returns a start    *)
(* hour >= current_hour, current_hour = 17 with duration 1 returns hour    *)
(* 17, and a full-horizon search with too few slots left returns           *)
(* (None, None).                                                           *)
(***************************************************************************)
CurrentHourCall == pc = "done" /\ Len(args) = 2

\* the Today slots at or after the hour and all of Tomorrow's that have a price
SlotsLeft(hour) ==
  Cardinality({h \in hour..23 : HasPrice(data, PriceKey(h))})
    + Cardinality({h \in 0..23 : HasPrice(data, PriceKeyTomorrow(h))})

C8_ReferenceHourFilter ==
  CurrentHourCall =>
     /\ ret.kind = "return"
     /\ (op = "get_cheapest_duration_day" /\ ret.value[1] # None) =>
           ret.value[2][1] >= args[2]
     /\ (op = "get_cheapest_duration_day" /\ args = <<FOne, 17>>
           /\ HasPrice(data, PriceKey(17))) =>
           ret.value = <<data[PriceKey(17)], <<17>>>>
     /\ (op = "get_cheapest_duration" /\ SlotsLeft(args[2]) < CeilHours(args[1])) =>
           ret.value = <<None, None>>

(***************************************************************************)
(* C9: when several hours of the scanned period carry the highest (Today)  *)
(* or lowest (Day, Night) price, the hour returned is the earliest in the  *)
(* period's scan order; for Night an evening hour of Today wins a tie      *)
(* against a morning hour of Tomorrow.                                     *)
(***************************************************************************)
TodaySlots == [i \in 1..24 |-> PriceKey(i - 1)]

ExtremumCall ==
  pc = "done" /\ op \in {"get_highest_price_today_with_hour",
                         "get_lowest_price_day_with_hour",
                         "get_lowest_price_night_with_hour"}
ScannedSlots ==
  IF op = "get_highest_price_today_with_hour" THEN TodaySlots
  ELSE IF op = "get_lowest_price_day_with_hour" THEN DaySlots
  ELSE NightSlots

\* the indices of the slots of the period that carry this price
Carrying(slots, price) ==
  {i \in 1..Len(slots) : HasPrice(data, slots[i]) /\ FEq(data[slots[i]], price)}

C9_EarliestOfTies ==
  (ExtremumCall /\ Present) =>
     /\ Carrying(ScannedSlots, ret.value[1]) # {}
     /\ ret.value[2] =
          <<SlotHour(ScannedSlots[MinOf(Carrying(ScannedSlots, ret.value[1]))])>>

\* the lowest Night price is carried by an evening hour and by a morning hour
C9_Witness ==
  /\ pc = "done" /\ op = "get_lowest_price_night_with_hour" /\ Present
  /\ \E i \in 1..6, j \in 7..12 :
        {i, j} \subseteq Carrying(NightSlots, ret.value[1])

(***************************************************************************)
(* C10: the *_with_hour queries return the highest price of Today's priced *)
(* slots, or the lowest of Day's or Night's, with an hour that carries it; *)
(* the result is (None, None) exactly when no slot of the scanned period   *)
(* has a price, and never a price without an hour.                         *)
(***************************************************************************)
PricesOf(slots) == {data[k] : k \in {q \in Range(slots) : HasPrice(data, q)}}

IsExtremum(price, prices) ==
  /\ price \in prices
  /\ IF op = "get_highest_price_today_with_hour"
     THEN \A y \in prices : ~FLess(price, y)
     ELSE \A y \in prices : ~FLess(y, price)

C10_ExtremumWithHour ==
  ExtremumCall =>
     /\ ret.kind = "return"
     /\ (PricesOf(ScannedSlots) = {}) <=> (ret.value = <<None, None>>)
     /\ (ret.value[1] = None) <=> (ret.value[2] = None)
     /\ Present =>
          /\ IsExtremum(ret.value[1], PricesOf(ScannedSlots))
          /\ ret.value[2][1] \in {SlotHour(ScannedSlots[i]) :
                                    i \in Carrying(ScannedSlots, ret.value[1])}

\* the highest price of Today is returned although Tomorrow holds a higher one
C10_Witness ==
  /\ pc = "done" /\ op = "get_highest_price_today_with_hour" /\ Present
  /\ \E k \in DOMAIN data :
        k[3] = "_tomorrow" /\ data[k] # None /\ FLess(ret.value[1], data[k])

(***************************************************************************)
(* C11: on an empty price map every query returns the absent result: None  *)
(* for the three extremum prices and the current price of any hour,        *)
(* (None, None) for the three *_with_hour lookups and for the cheapest     *)
(* window in Day and in Night at any duration; none of them raises.        *)
(***************************************************************************)
ScalarQueries == {"get_highest_price_today", "get_lowest_price_day",
                  "get_lowest_price_night", "get_current_price"}

\* a call of one of the class's queries with the arguments of its signature
QueryCall == pc = "done" /\ op \in Methods /\ Len(args) <= 1

C11_EmptySeries ==
  (QueryCall /\ DOMAIN data = {}) =>
     ret = Returned(IF op \in ScalarQueries THEN None ELSE <<None, None>>)

\* the current price of hour 12 asked of the empty map
C11_Witness ==
  /\ QueryCall /\ DOMAIN data = {}
  /\ op = "get_current_price" /\ args = <<12>>
  /\ ret = Returned(None)

(***************************************************************************)
(* C13: a Night window runs from today's evening hours into tomorrow's     *)
(* hours 0..5, read from the tomorrow slots and never from today's hours   *)
(* 0..5; the start hour returned is the bare hour of the window's first    *)
(* slot.  With only hour 23 at 0.20 and tomorrow's hours 0 and 1 at 0.14   *)
(* and 0.13, duration 2 gives average 0.135 and start hour 0.              *)
(***************************************************************************)
\* the float nearest to 0.135
MidnightWrapAverage == FDiv(FromInt(27), FromInt(200))

C13_MidnightWrap ==
  /\ (NightCall /\ FLess(FZero, Duration) /\ Present) =>
       LET hour == ret.value[2][1]
           first == IF hour < 6 THEN PriceKeyTomorrow(hour) ELSE PriceKey(hour)
       IN /\ hour \in (0..5) \cup (18..23)
          /\ HasPrice(data, first)
          /\ ret.value[1] = WeightedAverage(PricedFrom(NightSlots, hour), 1, Duration)
  /\ (NightCall /\ data \in MidnightWrapMaps /\ Duration = Hundredths(200)) =>
       ret = Returned(<<MidnightWrapAverage, <<0>>>>)

\* the scenario with cheaper prices at today's hours 0 and 1, which the
\* window found does not take
C13_Witness ==
  /\ NightCall /\ Duration = Hundredths(200)
  /\ data \in MidnightWrapMaps /\ HasPrice(data, PriceKey(0)) /\ Present
  /\ FLess(data[PriceKey(0)], ret.value[1])
  /\ ret.value[2] = <<0>>

(***************************************************************************)
(* C16: the Day queries depend only on today's hours 6..17 and the Night   *)
(* queries only on today's hours 18..23 and tomorrow's hours 0..5: the     *)
(* result on a price map is the result on the map cut down to the 12 slots *)
(* of the period, so two maps that agree on those slots give the same      *)
(* result for every query on the period and every duration.                *)
(***************************************************************************)
\* the price map with every slot outside the period left out
Restrict(map, period) == [k \in DOMAIN map \cap period |-> map[k]]

DayQueries == {"get_lowest_price_day", "get_lowest_price_day_with_hour",
               "get_cheapest_duration_day"}
NightQueries == {"get_lowest_price_night", "get_lowest_price_night_with_hour",
                 "get_cheapest_duration_night"}

\* what the query called ends in when asked of another price map with the
\* same arguments
SameQueryOn(map) ==
  CASE op = "get_lowest_price_day" -> Returned(get_lowest_price_day(map))
    [] op = "get_lowest_price_day_with_hour" ->
         Returned(get_lowest_price_day_with_hour(map))
    [] op = "get_cheapest_duration_day" -> get_cheapest_duration_day(map, Duration)
    [] op = "get_lowest_price_night" -> Returned(get_lowest_price_night(map))
    [] op = "get_lowest_price_night_with_hour" ->
         Returned(get_lowest_price_night_with_hour(map))
    [] op = "get_cheapest_duration_night" -> get_cheapest_duration_night(map, Duration)

C16_PeriodIndependence ==
  /\ (QueryCall /\ op \in DayQueries) =>
        ret = SameQueryOn(Restrict(data, DayKeys))
  /\ (QueryCall /\ op \in NightQueries) =>
        ret = SameQueryOn(Restrict(data, NightKeys))

\* a Night lowest-price lookup on a map whose only cheaper price is at
\* today's hour 0, outside the period
C16_Witness ==
  /\ QueryCall /\ op = "get_lowest_price_night_with_hour" /\ Present
  /\ HasPrice(data, PriceKey(0))
  /\ FLess(data[PriceKey(0)], ret.value[1])
  /\ Restrict(data, NightKeys) # data

(***************************************************************************)
(* C19: for Day and Night, whenever 0 < duration <= 12 and at least        *)
(* ceil(duration) slots of the period have a (finite) price, the search    *)
(* returns a present result: an average and a start hour, the hour of a    *)
(* slot of the period that has a price; (None, None) is returned only when *)
(* the duration is <= 0 or fewer than ceil(duration) slots have a price.   *)
(*                                                                         *)
(* As stated this fails for finite prices whose sum overflows: with hours  *)
(* 6 and 7 at 1e308 and duration 2 the window sum is inf, which is not     *)
(* below the initial best average inf, and (None, None) is returned with   *)
(* two priced slots.  What holds: the result is present whenever some      *)
(* placement's weighted average, in float arithmetic, is below inf, and    *)
(* (None, None) is returned only when the duration is <= 0, fewer than     *)
(* ceil(duration) slots have a price, or no placement's average is below   *)
(* inf.                                                                    *)
(***************************************************************************)
Coverable ==
  /\ FLess(FZero, Duration) /\ FLeq(Duration, FromInt(Len(CallSlots)))
  /\ Len(Materialized(CallSlots)) >= CeilHours(Duration)

\* the result is an average with the hour of a priced slot of the period
PresentResult ==
  /\ ret.value[1] # None /\ ret.value[2] # None
  /\ \E i \in 1..Len(CallSlots) :
        /\ HasPrice(data, CallSlots[i])
        /\ ret.value[2] = <<SlotHour(CallSlots[i])>>

\* some placement has a weighted average below inf
SomeBelowInf ==
  \E p \in Averages(Materialized(CallSlots), Duration) : FLess(p[2], FInf)

C19_SearchIsTotal ==
  (WindowCall /\ IsNumber(Duration)) =>
     /\ ret.kind = "return"
     /\ Coverable => PresentResult
     /\ ret.value = <<None, None>> =>
          (FLeq(Duration, FZero) \/ Len(Materialized(CallSlots)) < CeilHours(Duration))

C19_TotalUnlessOverflow ==
  (WindowCall /\ IsNumber(Duration)) =>
     /\ ret.kind = "return"
     /\ (Coverable /\ SomeBelowInf) => PresentResult
     /\ ret.value = <<None, None>> =>
          \/ FLeq(Duration, FZero)
          \/ Len(Materialized(CallSlots)) < CeilHours(Duration)
          \/ ~SomeBelowInf

\* a duration that the priced slots cover, with a placement whose sum
\* overflows and a later one that is returned
C19_Witness ==
  /\ DayCall /\ Duration = Hundredths(200) /\ Coverable
  /\ \E p \in Averages(Materialized(DaySlots), Duration) : p[2] = FInf
  /\ Present /\ ret.value[2] = <<7>>

(***************************************************************************)
(* C20: in _find_cheapest_window every start index the sliding loop        *)
(* enumerates has all its slots inside the materialized sequence           *)
(* (floor(duration) full ones, and the fractional one when the duration    *)
(* is fractional), accumulates window_hours equal to the duration, and so  *)
(* passes the coverage check.                                              *)
(***************************************************************************)
\* the materialized sequence of the period searched, as the code builds it
CallHourPrices ==
  IF op = "get_cheapest_duration_day"
  THEN BuildHourPrices(data, DayHours, FALSE, 1)
  ELSE BuildHourPrices(data, NightHours, TRUE, 1)

\* <<window_sum, window_hours>> of the placement at start index i
WindowAt(hour_prices, i, duration_hours) ==
  AddFraction(hour_prices, i, WindowSize(duration_hours), duration_hours,
              AddFullHours(hour_prices, i, 0, WindowSize(duration_hours),
                           <<FZero, FZero>>))

\* the start indices range(...) enumerates
StartIndices(hour_prices, duration_hours) ==
  0..(NumStarts(Len(hour_prices), duration_hours) - 1)

\* the call reaches the sliding loop
Searching == WindowCall /\ DOMAIN data # {} /\ FLess(FZero, Duration)
               /\ ~TooLong(CallSlots, Duration) /\ Len(CallHourPrices) > 0

C20_EnumeratedPlacementsCovered ==
  Searching =>
     \A i \in StartIndices(CallHourPrices, Duration) :
        /\ i + CeilHours(Duration) <= Len(CallHourPrices)
        /\ WindowAt(CallHourPrices, i, Duration)[2] = Duration
        /\ Covered(WindowAt(CallHourPrices, i, Duration)[2], Duration)

\* a fractional duration with more than one start index enumerated
C20_Witness ==
  /\ Searching /\ Duration = Hundredths(175)
  /\ Cardinality(StartIndices(CallHourPrices, Duration)) >= 2
  /\ Present

(***************************************************************************)
(* C14: whenever the client holds no session (constructed without one and  *)
(* not yet entered, or after close() of a session it owned), a call of     *)
(* get_electricity_prices fails with GreenPlanetEnergyConnectionError      *)
(* "Session not initialized" and posts no request; no request is ever      *)
(* posted without a session.                                               *)
(***************************************************************************)
FetchCall == pc = "done" /\ op = "get_electricity_prices"

\* the session the client held when the call was made
Held == args[1]

C14_SessionNotInitialized ==
  /\ FetchCall =>
        /\ Held = None =>
             /\ ret = RaisedWith("GreenPlanetEnergyConnectionError",
                                 "Session not initialized")
             /\ requests = 0
        /\ requests > 0 => Held # None
  /\ \A c \in BagToSet(tasks) : c.posted > 0 => c.session # None

\* a fetch after the client closed the session it had created
C14_Witness ==
  /\ FetchCall /\ Held = None /\ session = None /\ own_session
  /\ Len(sessions) = 1 /\ sessions[1].closed
  /\ ret.exc = "GreenPlanetEnergyConnectionError" /\ requests = 0

(***************************************************************************)
(* C15: get_electricity_prices ends in exactly one of: a price map;        *)
(* GreenPlanetEnergyAPIError when the HTTP status is not 200 or the result *)
(* carries errorCode != 0; GreenPlanetEnergyConnectionError on a timeout   *)
(* or an aiohttp client error (or without a session).  No error outcome    *)
(* returns a price map, and an API error is never turned into a            *)
(* connection error.                                                       *)
(***************************************************************************)
Outcome == args[3]
Posted == requests > 0

\* the response's result carries errorCode != 0
VendorError ==
  /\ Outcome.body.json /\ Outcome.body.data.type = "object"
  /\ "result" \in DOMAIN Outcome.body.data.members
  /\ GetOr(Outcome.body.data.members["result"], "errorCode", 0) # 0

ApiFailure ==
  Posted /\ Outcome.kind = "response" /\ (Outcome.status # 200 \/ VendorError)
TransportFailure ==
  Held = None \/ (Posted /\ Outcome.kind \in {"timeout", "client_error"})

C15_FetchOutcomes ==
  FetchCall =>
     /\ \/ ret.kind = "return"
        \/ ret.kind = "raise" /\ ret.exc \in {"GreenPlanetEnergyAPIError",
                                              "GreenPlanetEnergyConnectionError"}
     /\ ret.exc = "GreenPlanetEnergyAPIError" <=> ApiFailure
     /\ ret.exc = "GreenPlanetEnergyConnectionError" <=> TransportFailure
     /\ ret.kind = "return" <=> ~(ApiFailure \/ TransportFailure)

(***************************************************************************)
(* C17: a session passed to the constructor is never closed and never      *)
(* replaced by the client; the client creates a session in __aenter__ only *)
(* when none was passed; close() and __aexit__ close a session only if the *)
(* client created it, and after close() of an owned session the client     *)
(* holds no session.                                                       *)
(***************************************************************************)
C17_SessionOwnership ==
  /\ \A i \in 1..Len(sessions) :
        /\ sessions[i].by = "caller" => ~sessions[i].closed
        /\ sessions[i].by = "client" => own_session
  /\ ~own_session => session = <<1>> /\ Len(sessions) = 1
  /\ (pc = "done" /\ op \in {"close", "__aexit__"} /\ own_session) => session = None

\* close() on a client entered with the caller's session, which stays open
\* and in place
C17_Witness ==
  /\ pc = "done" /\ op = "close" /\ ~own_session
  /\ session = <<1>> /\ sessions[1].by = "caller" /\ ~sessions[1].closed

(***************************************************************************)
(* C18: every key of the price map built by _process_response denotes one  *)
(* of the 48 slots: its hour is an integer 0..23 and its day is today or   *)
(* tomorrow, whatever the vendor's datum and wert arrays hold.             *)
(***************************************************************************)
\* str(n) of an int n >= 0
RECURSIVE DigitsOf(_)
DigitsOf(n) ==
  IF n < 10 THEN <<Zero + n>>
  ELSE DigitsOf(n \div 10) \o <<Zero + (n % 10)>>

SlotKeys ==
  {HourKey(DigitsOf(hour), suffix) : hour \in 0..23, suffix \in {"", "_tomorrow"}}

C18_KeySpace ==
  (FetchCall /\ ret.kind = "return") => DOMAIN ret.value \subseteq SlotKeys

(***************************************************************************)
(* C21: for a client constructed without a session, over any sequence of   *)
(* __aenter__, close and __aexit__ calls (__aenter__ more than once        *)
(* included), at most one session created by the client is open at any     *)
(* time, and once close() or __aexit__ has returned every session the      *)
(* client ever created is closed.                                          *)
(***************************************************************************)
\* the sessions the client created that are still open
OpenCreated == {i \in 1..Len(sessions) :
                  sessions[i].by = "client" /\ ~sessions[i].closed}

C21_NoSessionLeak ==
  own_session =>
     /\ Cardinality(OpenCreated) <= 1
     /\ (pc = "done" /\ op \in {"close", "__aexit__"}) => OpenCreated = {}

====
